---------------------------- MODULE Spec2Model ----------------------------
(***************************************************************************)
(* Model of the paged virtual-memory core of the zihai hypervisor          *)
(* (src/zihai/src/mm.rs): the stack frame allocator, the frame ownership   *)
(* wrapper, the Sv39 / Sv39x4 paging modes, the level iterator, the paged  *)
(* address space (try_new_in, allocate_map, alloc_get_table, find_ppn),    *)
(* the range solver MapPairs::solve and translate_frame_read.              *)
(*                                                                         *)
(* usize values are modelled as naturals.  Every value the model computes  *)
(* stays far below 2^31, so no usize operation of the modelled runs wraps. *)
(***************************************************************************)
EXTENDS Integers, Sequences, FiniteSets, TLC

VARIABLES
    fa,          \* the StackFrameAllocator: [current, end, recycled]
    mem,         \* physical memory read as page tables: <<ppn, idx>> -> slot bits
    spaces,      \* the PagedAddrSpace objects: id -> [alive, root_frame, frames, page_mode]
    result,      \* the call made by the last step and what it returned
    aborted,     \* a panic has been raised: on_panic resets the machine
    dealloc_log, \* the page numbers the last step passed to deallocate_frame
    issued,      \* ppn -> allocate_frame has returned ppn
    freed,       \* ppn -> deallocate_frame(ppn) calls accepted since ppn was last returned
    pc,          \* core -> position of the core in its allocator call
    op,          \* core -> the allocator call the core is making
    local,       \* core -> the allocator state the core has loaded
    lock,        \* the owner of the spin::Mutex around the allocator, or NoCore
    boxes,       \* core -> the pages of the FrameBox values the core owns
    input,       \* the arguments MapPairs::solve is called with, alone or
                 \* by the allocate_map call that failed last
    output,      \* the segments MapPairs::solve produced for input
    asid_alloc,  \* the StackAsidAllocator of a core: [current, exhausted, max, recycled]
    asid_log     \* what the calls on asid_alloc have done so far

vars == <<fa, mem, spaces, result, aborted, dealloc_log, issued, freed,
          pc, op, local, lock, boxes, input, output, asid_alloc, asid_log>>

faVars    == <<fa, issued, freed>>
spaceVars == <<mem, spaces, dealloc_log>>
asidVars  == <<asid_alloc, asid_log>>
lockVars  == <<pc, op, local, lock, boxes>>
coreVars  == <<lockVars, asidVars>>
pureVars  == <<input, output>>

-----------------------------------------------------------------------------
(* Small helpers.                                                          *)

Min(a, b) == IF a <= b THEN a ELSE b
Max(a, b) == IF a >= b THEN a ELSE b

RECURSIVE Pow2(_)
Pow2(k) == IF k = 0 THEN 1 ELSE 2 * Pow2(k - 1)

\* x >> k and x & (2^k - 1) on naturals
Shr(x, k)     == x \div Pow2(k)
LowBits(x, k) == x % Pow2(k)

Last(s)  == s[Len(s)]
Front(s) == SubSeq(s, 1, Len(s) - 1)

SeqToSet(s) == {s[i] : i \in 1..Len(s)}

RECURSIVE SumSeq(_)
SumSeq(s) == IF s = <<>> THEN 0 ELSE s[1] + SumSeq(Tail(s))

-----------------------------------------------------------------------------
(* Paging modes: constants of the PageMode implementations.                *)

FRAME_SIZE_BITS   == 12
PPN_BITS          == 44
MAX_PAGE_LEVELS   == 3
PAGE_ENTRIES_BITS == 9
\* entries: [Sv39PageSlot; 512]
TABLE_ENTRIES     == 512

Modes == {"Sv39", "Sv39x4"}

\* get_layout_for_level that multiplies by the level instead of shifting
get_layout_linear(level) ==
    IF level = 0 THEN 1 ELSE level * 512

\* PageMode::get_layout_for_level(level).align_in_frames(): the loop shifts
\* align_in_frames left by PAGE_ENTRIES_BITS once per level.
RECURSIVE get_layout_for_level(_)
get_layout_for_level(level) ==
    IF level = 0 THEN 1
    ELSE get_layout_for_level(level - 1) * Pow2(PAGE_ENTRIES_BITS)

\* PageLayout::page_size: align_in_frames << FRAME_SIZE_BITS
page_size(level) == get_layout_for_level(level) * Pow2(FRAME_SIZE_BITS)

-----------------------------------------------------------------------------
(* LevelIter: the iterator state and its next().                           *)

falling_includes(begin, end) ==
    [remaining_min |-> end, remaining_max |-> begin,
     include_end |-> TRUE, towards_higher |-> FALSE]

\* falling_excludes that keeps the end level
falling_excludes_keeps_end(begin, end) ==
    [remaining_min |-> end, remaining_max |-> begin,
     include_end |-> TRUE, towards_higher |-> FALSE]

falling_excludes(begin, end) ==
    [remaining_min |-> end, remaining_max |-> begin,
     include_end |-> FALSE, towards_higher |-> FALSE]

\* Iterator::next for LevelIter: [item, iter]; item = -1 stands for None.
LevelIterNext(it) ==
    IF it.remaining_min = it.remaining_max
    THEN IF ~it.include_end
         THEN [item |-> -1, iter |-> it]
         ELSE [item |-> it.remaining_min,
               iter |-> [it EXCEPT !.include_end = FALSE]]
    ELSE IF it.towards_higher
         THEN [item |-> it.remaining_min,
               iter |-> [it EXCEPT !.remaining_min = @ + 1]]
         ELSE [item |-> it.remaining_max,
               iter |-> [it EXCEPT !.remaining_max = @ - 1]]

\* collect(): the sequence of levels the iterator yields
RECURSIVE Collect(_)
Collect(it) ==
    LET n == LevelIterNext(it)
    IN  IF n.item = -1 THEN <<>> ELSE <<n.item>> \o Collect(n.iter)

visit_levels_until(level)  == Collect(falling_includes(MAX_PAGE_LEVELS - 1, level))
visit_levels_before(level) == Collect(falling_excludes(MAX_PAGE_LEVELS - 1, level))
visit_levels_from(level)   == Collect(falling_includes(level, 0))

-----------------------------------------------------------------------------
(* Virtual page number indexing of Sv39 and Sv39x4.                        *)

\* Sv39x4::vpn_mask_by_level; Sv39 masks every level with 511
vpn_mask_by_level(mode, level) ==
    IF mode = "Sv39x4" /\ level = 2 THEN 2047 ELSE 511

vpn_index(mode, vpn, level) ==
    Shr(vpn, level * 9) % (vpn_mask_by_level(mode, level) + 1)

\* The Range<usize> start..end as <<start, end>>
vpn_index_range(mode, vs, ve, level) ==
    LET mask  == vpn_mask_by_level(mode, level)
        start == Shr(vs, level * 9) % (mask + 1)
        end0  == Shr(ve, level * 9) % (mask + 1)
        end1  == IF level <= 1 /\ Shr(ve, (level + 1) * 9) > Shr(vs, (level + 1) * 9)
                 THEN mask + 1
                 ELSE end0
    IN  <<start, end1>>

\* x & !((1 << k) - 1): x with its low k bits cleared, (x >> k) << k.  The
\* shift is done in two halves so that 1 << 44 is never formed.
ClearLow(x, k) ==
    LET h == k \div 2
    IN  (Shr(Shr(x, h), k - h) * Pow2(k - h)) * Pow2(h)

\* Sv39::vpn_level_index (Sv39x4 forwards to it)
vpn_level_index(vpn, level, idx) ==
    CASE level = 0 -> ClearLow(vpn, 9) + idx
      [] level = 1 -> ClearLow(vpn, 18) + idx * Pow2(9)
      [] level = 2 -> ClearLow(vpn, 44) + idx * Pow2(18)

-----------------------------------------------------------------------------
(* MapPairs::solve: the sequence of (level, vpn range) the mapping uses.   *)

Seg(level, s, e) == [level |-> level, start |-> s, end |-> e]

\* The inner loop without the push of the range after the previous level's
\* end (the `vs_prev != vs_cur` branch)
RECURSIVE SolveInnerNoSuffix(_, _, _, _)
SolveInnerNoSuffix(js, prev, vpn, n) ==
    IF js = <<>> THEN <<>>
    ELSE LET j         == Head(js)
             align_cur == get_layout_for_level(j)
             ve_cur    == align_cur * ((vpn + align_cur - 1) \div align_cur)
             vs_cur    == align_cur * ((vpn + n) \div align_cur)
             pushed    ==
                 IF prev # <<>>
                 THEN (IF ve_cur # prev[1] THEN <<Seg(j, ve_cur, prev[1])>> ELSE <<>>)
                 ELSE IF ve_cur # vs_cur THEN <<Seg(j, ve_cur, vs_cur)>> ELSE <<>>
         IN  pushed \o SolveInnerNoSuffix(Tail(js), <<ve_cur, vs_cur>>, vpn, n)

\* The inner loop with the end rounded down from the last page of the range,
\* vpn + n - 1, in place of vpn + n
RECURSIVE SolveInnerLastPage(_, _, _, _)
SolveInnerLastPage(js, prev, vpn, n) ==
    IF js = <<>> THEN <<>>
    ELSE LET j         == Head(js)
             align_cur == get_layout_for_level(j)
             ve_cur    == align_cur * ((vpn + align_cur - 1) \div align_cur)
             vs_cur    == align_cur * ((vpn + n - 1) \div align_cur)
             pushed    ==
                 IF prev # <<>>
                 THEN (IF ve_cur # prev[1] THEN <<Seg(j, ve_cur, prev[1])>> ELSE <<>>)
                      \o (IF prev[2] # vs_cur THEN <<Seg(j, prev[2], vs_cur)>> ELSE <<>>)
                 ELSE IF ve_cur # vs_cur THEN <<Seg(j, ve_cur, vs_cur)>> ELSE <<>>
         IN  pushed \o SolveInnerLastPage(Tail(js), <<ve_cur, vs_cur>>, vpn, n)

\* The inner loop with the two pushes of a level in the other order
RECURSIVE SolveInnerSuffixFirst(_, _, _, _)
SolveInnerSuffixFirst(js, prev, vpn, n) ==
    IF js = <<>> THEN <<>>
    ELSE LET j         == Head(js)
             align_cur == get_layout_for_level(j)
             ve_cur    == align_cur * ((vpn + align_cur - 1) \div align_cur)
             vs_cur    == align_cur * ((vpn + n) \div align_cur)
             pushed    ==
                 IF prev # <<>>
                 THEN (IF prev[2] # vs_cur THEN <<Seg(j, prev[2], vs_cur)>> ELSE <<>>)
                      \o (IF ve_cur # prev[1] THEN <<Seg(j, ve_cur, prev[1])>> ELSE <<>>)
                 ELSE IF ve_cur # vs_cur THEN <<Seg(j, ve_cur, vs_cur)>> ELSE <<>>
         IN  pushed \o SolveInnerSuffixFirst(Tail(js), <<ve_cur, vs_cur>>, vpn, n)

\* The inner loop `for j in M::visit_levels_from(i)`: js is what is left of
\* the level sequence, prev is (ve_prev, vs_prev) or <<>> for (None, None).
RECURSIVE SolveInner(_, _, _, _)
SolveInner(js, prev, vpn, n) ==
    IF js = <<>> THEN <<>>
    ELSE LET j         == Head(js)
             align_cur == get_layout_for_level(j)
             ve_cur    == align_cur * ((vpn + align_cur - 1) \div align_cur)
             vs_cur    == align_cur * ((vpn + n) \div align_cur)
             pushed    ==
                 IF prev # <<>>
                 THEN (IF ve_cur # prev[1] THEN <<Seg(j, ve_cur, prev[1])>> ELSE <<>>)
                      \o (IF prev[2] # vs_cur THEN <<Seg(j, prev[2], vs_cur)>> ELSE <<>>)
                 ELSE IF ve_cur # vs_cur THEN <<Seg(j, ve_cur, vs_cur)>> ELSE <<>>
         IN  pushed \o SolveInner(Tail(js), <<ve_cur, vs_cur>>, vpn, n)

\* An outer loop that never looks above the leaf level
SolveOuterLeafOnly(is, vpn, ppn, n) ==
    IF n < get_layout_for_level(0) THEN <<>>
    ELSE SolveInner(visit_levels_from(0), <<>>, vpn, n)

\* An outer loop that tests n < align only, not vpn - ppn
RECURSIVE SolveOuterBySize(_, _, _, _)
SolveOuterBySize(is, vpn, ppn, n) ==
    IF is = <<>> THEN <<>>
    ELSE LET i     == Head(is)
             align == get_layout_for_level(i)
         IN  IF n < align
             THEN SolveOuterBySize(Tail(is), vpn, ppn, n)
             ELSE SolveInner(visit_levels_from(i), <<>>, vpn, n)

\* The outer loop `for i in M::visit_levels_until(leaf)`: the first level that
\* passes the test runs the inner loop and breaks.  usize::wrapping_sub(vpn,
\* ppn) % align is (vpn - ppn) modulo align, since align divides 2^64.
RECURSIVE SolveOuter(_, _, _, _)
SolveOuter(is, vpn, ppn, n) ==
    IF is = <<>> THEN <<>>
    ELSE LET i     == Head(is)
             align == get_layout_for_level(i)
         IN  IF (vpn - ppn) % align # 0 \/ n < align
             THEN SolveOuter(Tail(is), vpn, ppn, n)
             ELSE SolveInner(visit_levels_from(i), <<>>, vpn, n)

\* solve is generic over the mode; both modes have the same level constants
solve(vpn, ppn, n, mode) == SolveOuter(visit_levels_until(0), vpn, ppn, n)

-----------------------------------------------------------------------------
(* StackFrameAllocator.  An allocator state is [current, end, recycled];   *)
(* a call returns the new state together with what the caller sees.        *)

\* StackFrameAllocator::new(start, end)
StackFrameAllocator_new(start, end) ==
    [current |-> start, end |-> end, recycled |-> <<>>]

\* is_within_range with the end of the range taken in
is_within_range_inclusive(ppn, begin, end) ==
    IF begin <= end
    THEN begin <= ppn /\ ppn <= end
    ELSE begin <= ppn \/ ppn <= end

\* PhysPageNum::is_within_range(begin, end)
is_within_range(ppn, begin, end) ==
    IF begin <= end
    THEN begin <= ppn /\ ppn < end
    ELSE begin <= ppn \/ ppn < end

\* allocate_frame that hands out the watermark page without advancing the
\* watermark
allocate_frame_no_advance(a) ==
    IF a.recycled # <<>>
    THEN [st  |-> [a EXCEPT !.recycled = Front(a.recycled)],
          ret |-> "Ok", ppn |-> Last(a.recycled)]
    ELSE IF a.current = a.end
         THEN [st |-> a, ret |-> "FrameAllocError", ppn |-> 0]
         ELSE [st |-> a, ret |-> "Ok", ppn |-> a.current]

\* allocate_frame that advances the watermark while it can and turns to the
\* recycled stack only at the end of the region
allocate_frame_fresh_first(a) ==
    IF a.current # a.end
    THEN [st  |-> [a EXCEPT !.current = a.current + 1],
          ret |-> "Ok", ppn |-> a.current]
    ELSE IF a.recycled # <<>>
         THEN [st  |-> [a EXCEPT !.recycled = Front(a.recycled)],
               ret |-> "Ok", ppn |-> Last(a.recycled)]
         ELSE [st |-> a, ret |-> "FrameAllocError", ppn |-> 0]

\* allocate_frame that fails at the end of the region without looking at
\* the recycled stack
allocate_frame_end_first(a) ==
    IF a.current = a.end
    THEN [st |-> a, ret |-> "FrameAllocError", ppn |-> 0]
    ELSE IF a.recycled # <<>>
         THEN [st  |-> [a EXCEPT !.recycled = Front(a.recycled)],
               ret |-> "Ok", ppn |-> Last(a.recycled)]
         ELSE [st  |-> [a EXCEPT !.current = a.current + 1],
               ret |-> "Ok", ppn |-> a.current]

\* allocate_frame: ret is "Ok" (with ppn) or "FrameAllocError"
allocate_frame(a) ==
    IF a.recycled # <<>>
    THEN [st  |-> [a EXCEPT !.recycled = Front(a.recycled)],
          ret |-> "Ok", ppn |-> Last(a.recycled)]
    ELSE IF a.current = a.end
         THEN [st |-> a, ret |-> "FrameAllocError", ppn |-> 0]
         ELSE [st  |-> [a EXCEPT !.current = a.current + 1],
               ret |-> "Ok", ppn |-> a.current]

\* deallocate_frame without the search of the recycled stack
deallocate_frame_unchecked(a, ppn) ==
    IF is_within_range(ppn, a.current, a.end)
    THEN [st |-> a, ret |-> "Panic"]
    ELSE [st |-> [a EXCEPT !.recycled = Append(a.recycled, ppn)], ret |-> "Ok"]

\* deallocate_frame without the test against the unallocated range
deallocate_frame_unranged(a, ppn) ==
    IF ppn \in SeqToSet(a.recycled)
    THEN [st |-> a, ret |-> "Panic"]
    ELSE [st |-> [a EXCEPT !.recycled = Append(a.recycled, ppn)], ret |-> "Ok"]

\* deallocate_frame: ret is "Ok" or "Panic" (the validity check failed)
deallocate_frame(a, ppn) ==
    IF is_within_range(ppn, a.current, a.end) \/ ppn \in SeqToSet(a.recycled)
    THEN [st |-> a, ret |-> "Panic"]
    ELSE [st |-> [a EXCEPT !.recycled = Append(a.recycled, ppn)], ret |-> "Ok"]

-----------------------------------------------------------------------------
(* Sv39 page-table slots: bits = (ppn << 10) | flags.                      *)

FlagV == 1
FlagR == 2
FlagW == 4
FlagX == 8
FlagU == 16

RECURSIVE BitOr(_, _)
BitOr(a, b) ==
    IF a = 0 THEN b
    ELSE IF b = 0 THEN a
    ELSE (IF a % 2 = 1 \/ b % 2 = 1 THEN 1 ELSE 0) + 2 * BitOr(a \div 2, b \div 2)

RECURSIVE BitAnd(_, _)
BitAnd(a, b) ==
    IF a = 0 \/ b = 0 THEN 0
    ELSE (IF a % 2 = 1 /\ b % 2 = 1 THEN 1 ELSE 0) + 2 * BitAnd(a \div 2, b \div 2)

\* Sv39PageEntry::write_ppn_flags
write_ppn_flags(ppn, flags) == BitOr(ppn * Pow2(10), flags)

\* Sv39PageEntry::flags: from_bits_truncate(bits.get_bits(0..8))
entry_flags(bits) == LowBits(bits, 8)

\* Sv39PageEntry::ppn: bits.get_bits(10..54)
entry_get_ppn(bits) == Shr(bits, 10) - ClearLow(Shr(bits, 10), PPN_BITS)

\* slot_try_get_entry returns Ok(entry) exactly when the V flag is set
slot_is_valid(bits) == BitAnd(entry_flags(bits), FlagV) # 0

\* entry_is_leaf_page: flags intersects R | W | X
entry_is_leaf_page(bits) ==
    BitAnd(entry_flags(bits), BitOr(FlagR, BitOr(FlagW, FlagX))) # 0

slot_set_child(ppn) == write_ppn_flags(ppn, FlagV)

slot_set_mapping(ppn, flags) == write_ppn_flags(ppn, BitOr(FlagV, flags))

-----------------------------------------------------------------------------
(* Physical memory seen through unref_ppn_mut: a frame read as a page      *)
(* table.  Only slots that are not zero are stored.                        *)

Slot(m, ppn, idx) == IF <<ppn, idx>> \in DOMAIN m THEN m[<<ppn, idx>>] ELSE 0

\* table[idx] on Sv39PageTable: entries[idx] panics for idx >= 512
index_in_bounds(idx) == idx < TABLE_ENTRIES

\* Sv39::init_page_table (through fill_frame_with_initialized_page_table):
\* every slot of the frame becomes zero
init_page_table(m, ppn) ==
    [k \in {k \in DOMAIN m : k[1] # ppn} |-> m[k]]

\* table[idx] = bits for every idx of written, bits given by value[idx]
WriteSlots(m, ppn, written, value) ==
    [k \in DOMAIN m \cup {<<ppn, i>> : i \in written} |->
        IF k[1] = ppn /\ k[2] \in written THEN value[k[2]] ELSE m[k]]

-----------------------------------------------------------------------------
(* FrameBox: the box is its page number; the allocator is the shared one.  *)

\* FrameBox::try_new_in: allocate_frame()?, then the box holds the page
FrameBox_try_new_in(a) == allocate_frame(a)

\* A drop that keeps the frame: deallocate_frame is not called
FrameBox_drop_leak(a, ppn) == [st |-> a, ret |-> "Ok"]

\* Drop for FrameBox: deallocate_frame(self.ppn)
FrameBox_drop(a, ppn) == deallocate_frame(a, ppn)

-----------------------------------------------------------------------------
(* PagedAddrSpace.  The operations work on w = [fa, mem, frames]: the      *)
(* shared allocator, the memory and the space's list of owned frames.      *)

\* PagedAddrSpace::try_new_in: [fa, mem, ret, root]
PagedAddrSpace_try_new_in(a, m) ==
    LET r == FrameBox_try_new_in(a)
    IN  IF r.ret # "Ok"
        THEN [fa |-> a, mem |-> m, ret |-> "FrameAllocError", root |-> 0]
        ELSE [fa |-> r.st, mem |-> init_page_table(m, r.ppn),
              ret |-> "Ok", root |-> r.ppn]

\* alloc_get_table, the loop `for level in M::visit_levels_before(entry_level)`
\* from table ppn on: [fa, mem, frames, ret, table]
RECURSIVE AllocGetTableWalk(_, _, _, _, _)
AllocGetTableWalk(levels, w, ppn, mode, vpn_start) ==
    IF levels = <<>>
    THEN [fa |-> w.fa, mem |-> w.mem, frames |-> w.frames, ret |-> "Ok", table |-> ppn]
    ELSE LET level == Head(levels)
             vidx  == vpn_index(mode, vpn_start, level)
             slot  == Slot(w.mem, ppn, vidx)
         IN  IF ~index_in_bounds(vidx)
             THEN [fa |-> w.fa, mem |-> w.mem, frames |-> w.frames,
                   ret |-> "Panic", table |-> ppn]
             ELSE IF slot_is_valid(slot)
             THEN AllocGetTableWalk(Tail(levels), w, entry_get_ppn(slot), mode, vpn_start)
             ELSE LET r == FrameBox_try_new_in(w.fa)
                  IN  IF r.ret # "Ok"
                      THEN [fa |-> w.fa, mem |-> w.mem, frames |-> w.frames,
                            ret |-> "FrameAllocError", table |-> ppn]
                      ELSE LET m1 == init_page_table(w.mem, r.ppn)
                               m2 == WriteSlots(m1, ppn, {vidx},
                                                [i \in {vidx} |-> slot_set_child(r.ppn)])
                           IN  AllocGetTableWalk(Tail(levels),
                                   [fa |-> r.st, mem |-> m2,
                                    frames |-> Append(w.frames, r.ppn)],
                                   r.ppn, mode, vpn_start)

alloc_get_table(w, root, mode, entry_level, vpn_start) ==
    AllocGetTableWalk(visit_levels_before(entry_level), w, root, mode, vpn_start)

\* allocate_map, the body of the loop over the solver's pairs for one pair:
\* the slots of idx_range are written in ascending order until one of them
\* is found valid (panic "already allocated") or out of the table's bounds.
MapOnePair(w, root, mode, vpn, ppn, flags, seg) ==
    LET t == alloc_get_table(w, root, mode, seg.level, seg.start)
    IN  IF t.ret # "Ok"
        THEN [fa |-> t.fa, mem |-> t.mem, frames |-> t.frames, ret |-> t.ret]
        ELSE LET r       == vpn_index_range(mode, seg.start, seg.end, seg.level)
                 range   == r[1] .. (r[2] - 1)
                 bad     == {i \in range : ~index_in_bounds(i)
                                           \/ slot_is_valid(Slot(t.mem, t.table, i))}
                 stop    == IF bad = {} THEN r[2]
                            ELSE CHOOSE i \in bad : \A j \in bad : i <= j
                 written == {i \in range : i < stop}
                 value   == [i \in written |->
                               slot_set_mapping(
                                   ppn + vpn_level_index(seg.start, seg.level, i) - vpn,
                                   flags)]
             IN  [fa |-> t.fa, mem |-> WriteSlots(t.mem, t.table, written, value),
                  frames |-> t.frames,
                  ret |-> IF bad = {} THEN "Ok" ELSE "Panic"]

RECURSIVE MapPairsLoop(_, _, _, _, _, _, _)
MapPairsLoop(segs, w, root, mode, vpn, ppn, flags) ==
    IF segs = <<>>
    THEN [fa |-> w.fa, mem |-> w.mem, frames |-> w.frames, ret |-> "Ok"]
    ELSE LET r == MapOnePair(w, root, mode, vpn, ppn, flags, Head(segs))
         IN  IF r.ret # "Ok" THEN r
             ELSE MapPairsLoop(Tail(segs),
                               [fa |-> r.fa, mem |-> r.mem, frames |-> r.frames],
                               root, mode, vpn, ppn, flags)

\* PagedAddrSpace::allocate_map: [fa, mem, frames, ret], ret "Ok",
\* "FrameAllocError" or "Panic"
allocate_map(w, root, mode, vpn, ppn, n, flags) ==
    MapPairsLoop(solve(vpn, ppn, n, mode), w, root, mode, vpn, ppn, flags)

\* PagedAddrSpace::find_ppn, the loop from table ppn on: [ret, entry, level]
RECURSIVE FindPpnWalk(_, _, _, _, _)
FindPpnWalk(levels, m, ppn, mode, vpn) ==
    IF levels = <<>>
    THEN [ret |-> "NotLeafInLowestPage", entry |-> 0, level |-> 0]
    ELSE LET lvl  == Head(levels)
             vidx == vpn_index(mode, vpn, lvl)
             slot == Slot(m, ppn, vidx)
         IN  IF ~index_in_bounds(vidx)
             THEN [ret |-> "Panic", entry |-> 0, level |-> lvl]
             ELSE IF ~slot_is_valid(slot)
             THEN [ret |-> "InvalidEntry", entry |-> 0, level |-> lvl]
             ELSE IF entry_is_leaf_page(slot)
             THEN [ret |-> "Ok", entry |-> slot, level |-> lvl]
             ELSE FindPpnWalk(Tail(levels), m, entry_get_ppn(slot), mode, vpn)

find_ppn(m, root, mode, vpn) ==
    FindPpnWalk(visit_levels_until(0), m, root, mode, vpn)

\* Drop of the fields root_frame and frames, in declaration order, starting
\* from allocator state a: [st, ret, log], log the pages passed to
\* deallocate_frame; a panic of deallocate_frame ends the drop.
RECURSIVE DropFrames(_, _, _)
DropFrames(ppns, a, log) ==
    IF ppns = <<>> THEN [st |-> a, ret |-> "Ok", log |-> log]
    ELSE LET r == FrameBox_drop(a, Head(ppns))
         IN  IF r.ret # "Ok"
             THEN [st |-> a, ret |-> "Panic", log |-> Append(log, Head(ppns))]
             ELSE DropFrames(Tail(ppns), r.st, Append(log, Head(ppns)))

\* A drop that gives back the root frame and forgets the intermediate frames
PagedAddrSpace_drop_root_only(a, root, frames) == DropFrames(<<root>>, a, <<>>)

PagedAddrSpace_drop(a, root, frames) == DropFrames(<<root>> \o frames, a, <<>>)

-----------------------------------------------------------------------------
(* translate_frame_read: the fragments passed to the callback f, in call   *)
(* order, and the value returned.                                          *)

\* VirtAddr::page_number and VirtAddr::page_offset
page_number(vaddr)       == Shr(vaddr, FRAME_SIZE_BITS)
page_offset(vaddr, lvl)  == vaddr % page_size(lvl)

\* VirtPageNum::next_page_by_level
next_page_by_level(vpn, lvl) == vpn + get_layout_for_level(lvl)

\* One callback: the arguments (ppn, offset, len); vpn is the page vpn2 the
\* loop stands at when it calls f
Frag(ppn, offset, len, vpn, lvl) ==
    [ppn |-> ppn, offset |-> offset, len |-> len, vpn |-> vpn, lvl |-> lvl]

\* The loop with the error of the next find_ppn swallowed: the read ends
\* with Ok at the first page that does not resolve
RECURSIVE TranslateLoopSwallow(_, _, _, _, _, _, _, _, _)
TranslateLoopSwallow(m, root, mode, vpn2, remaining_len, entry, lvl, cur_offset, frags) ==
    IF remaining_len = 0
    THEN [ret |-> "Ok", frags |-> frags]
    ELSE LET size     == page_size(lvl)
             cur_len  == IF remaining_len <= size THEN remaining_len ELSE size
             frags1   == Append(frags,
                                Frag(entry_get_ppn(entry), cur_offset, cur_len, vpn2, lvl))
             rest     == remaining_len - cur_len
             vpn_next == next_page_by_level(vpn2, lvl)
             e        == find_ppn(m, root, mode, vpn_next)
         IN  IF rest = 0 \/ e.ret # "Ok"
             THEN [ret |-> "Ok", frags |-> frags1]
             ELSE TranslateLoopSwallow(m, root, mode, vpn_next, rest, e.entry, e.level,
                                       0, frags1)

\* `while remaining_len > 0 { ... }`
RECURSIVE TranslateLoop(_, _, _, _, _, _, _, _, _)
TranslateLoop(m, root, mode, vpn2, remaining_len, entry, lvl, cur_offset, frags) ==
    IF remaining_len = 0
    THEN [ret |-> "Ok", frags |-> frags]
    ELSE LET size     == page_size(lvl)
             cur_len  == IF remaining_len <= size THEN remaining_len ELSE size
             frags1   == Append(frags,
                                Frag(entry_get_ppn(entry), cur_offset, cur_len, vpn2, lvl))
             rest     == remaining_len - cur_len
             vpn_next == next_page_by_level(vpn2, lvl)
             e        == find_ppn(m, root, mode, vpn_next)
         IN  IF rest = 0
             THEN [ret |-> "Ok", frags |-> frags1]
             ELSE IF e.ret # "Ok"
             THEN [ret |-> e.ret, frags |-> frags1]
             ELSE TranslateLoop(m, root, mode, vpn_next, rest, e.entry, e.level, 0, frags1)

translate_frame_read(m, root, mode, vaddr2, len_bytes2) ==
    LET vpn2 == page_number(vaddr2)
        e    == find_ppn(m, root, mode, vpn2)
    IN  IF e.ret # "Ok"
        THEN [ret |-> e.ret, frags |-> <<>>]
        ELSE TranslateLoop(m, root, mode, vpn2, len_bytes2, e.entry, e.level,
                           page_offset(vaddr2, e.level), <<>>)

-----------------------------------------------------------------------------
(* The machine the address spaces live in: one frame allocator shared by   *)
(* every core (rust_init: spin::Mutex::new(StackFrameAllocator::new(from,  *)
(* to))), and the address spaces built from it.                            *)

\* PhysAddr(0x80420000).page_number::<Sv39>()
from == 525344

\* The region is [from, from + MaxFrames): small, so that it runs out
MaxFrames == 4
to == from + MaxFrames

\* allocate_map calls made on one address space, alone and when two
\* spaces share the allocator
MaxMaps == 2
MaxSharedMaps == 1

\* try_new_in calls that create one address space anew
MaxNews == 1

NoCore == "none"
Cores  == {"hart0", "hart1"}

SpaceIds == {"as1", "as2"}

FlagsRWX == BitOr(FlagR, BitOr(FlagW, FlagX))

\* The (vpn, ppn, n, flags) the callers map
MapCases ==
    { [vpn |-> 510,    ppn |-> 511,    n |-> 4,      flags |-> FlagsRWX],
      [vpn |-> 512,    ppn |-> 1024,   n |-> 512,    flags |-> FlagsRWX],
      [vpn |-> 515,    ppn |-> 516,    n |-> 1,      flags |-> FlagR],
      [vpn |-> 511,    ppn |-> 2559,   n |-> 514,    flags |-> FlagsRWX],
      [vpn |-> 262144, ppn |-> 262145, n |-> 3,      flags |-> FlagsRWX],
      [vpn |-> 524288, ppn |-> 524288, n |-> 1024,   flags |-> FlagsRWX],
      [vpn |-> 0,      ppn |-> 786432, n |-> 262144, flags |-> FlagsRWX] }

\* The (vaddr, len) translate_frame_read is asked for
ReadCases ==
    { [vaddr |-> 510 * 4096,        len |-> 0],
      [vaddr |-> 510 * 4096,        len |-> 4096],
      [vaddr |-> 510 * 4096 + 2048, len |-> 4096],
      [vaddr |-> 510 * 4096 + 100,  len |-> 8192],
      [vaddr |-> 262144 * 4096 + 8, len |-> 3 * 4096 - 8],
      [vaddr |-> 512 * 4096 + 4095, len |-> 512 * 4096 + 2],
      [vaddr |-> 515 * 4096 + 2048, len |-> 4096],
      [vaddr |-> 600 * 4096,        len |-> 4096] }

\* Memory holds whatever the boot left in it: nothing, or stale words
EmptyMem == [k \in {} |-> 0]
StaleMem ==
    [k \in {<<from, 0>>, <<from + 1, 1>>, <<from + 2, 511>>, <<1024, 3>>} |->
        write_ppn_flags(from + 1, BitOr(FlagV, FlagR))]

\* maps and news count the allocate_map and try_new_in calls made so far;
\* done holds the arguments of the allocate_map calls that returned Ok
NoSpace == [alive |-> FALSE, root_frame |-> 0, frames |-> <<>>,
            page_mode |-> "Sv39", maps |-> 0, news |-> 0, done |-> {}]

\* hit: the call's range holds a page an earlier call of the space mapped
NoResult == [op |-> "none", space |-> "none", arg |-> <<>>, ret |-> "none",
             frags |-> <<>>, hit |-> FALSE]

\* The values of the variables a specification does not use
IdleFa     == fa = StackFrameAllocator_new(from, to)
IdleGhost  == issued = <<>> /\ freed = <<>>
IdleSpaces == /\ mem = EmptyMem
              /\ spaces = [s \in SpaceIds |-> NoSpace]
              /\ dealloc_log = <<>>
IdleAsid   == asid_alloc = <<>> /\ asid_log = <<>>
IdleLock   == /\ pc = <<>> /\ op = <<>> /\ local = <<>>
              /\ lock = NoCore /\ boxes = <<>>
IdleCores  == IdleLock /\ IdleAsid
IdlePure   == input = <<>> /\ output = <<>>

\* The frames an address space owns: root_frame and frames
Owned(sp) == {sp.root_frame} \cup SeqToSet(sp.frames)

\* The pages of the region handed out and not given back
Outstanding(a) == {p \in from .. (a.current - 1) : p \notin SeqToSet(a.recycled)}

Init ==
    /\ IdleFa
    /\ mem \in {EmptyMem, StaleMem}
    /\ spaces = [s \in SpaceIds |-> NoSpace]
    /\ result = NoResult
    /\ aborted = FALSE
    /\ dealloc_log = <<>>
    /\ IdleGhost /\ IdleCores /\ IdlePure

\* Some page of [c.vpn, c.vpn + c.n) lies in the range of a call in sp.done
\* and find_ppn resolves it in memory m
HitsMapped(m, sp, c) ==
    \E d \in sp.done :
        \E p \in Max(c.vpn, d.vpn) .. (Min(c.vpn + c.n, d.vpn + d.n) - 1) :
            find_ppn(m, sp.root_frame, sp.page_mode, p).ret = "Ok"

\* PagedAddrSpace::try_new_in(page_mode, &frame_alloc)
TryNewIn(s, mode) ==
    /\ ~aborted
    /\ ~spaces[s].alive
    /\ spaces[s].news < MaxNews
    /\ LET r == PagedAddrSpace_try_new_in(fa, mem)
       IN  /\ fa' = r.fa
           /\ mem' = r.mem
           /\ spaces' = [spaces EXCEPT ![s] =
                  IF r.ret = "Ok"
                  THEN [alive |-> TRUE, root_frame |-> r.root, frames |-> <<>>,
                        page_mode |-> mode, maps |-> spaces[s].maps,
                        news |-> spaces[s].news + 1, done |-> {}]
                  ELSE [spaces[s] EXCEPT !.news = @ + 1]]
           /\ result' = [op |-> "try_new_in", space |-> s, arg |-> <<mode>>,
                         ret |-> r.ret, frags |-> <<>>, hit |-> FALSE]
    /\ dealloc_log' = <<>>
    /\ UNCHANGED <<aborted, issued, freed, coreVars, pureVars>>

\* space.allocate_map(vpn, ppn, n, flags)
AllocateMap(s, c, max) ==
    /\ ~aborted
    /\ spaces[s].alive
    /\ spaces[s].maps < max
    /\ LET sp == spaces[s]
           r  == allocate_map([fa |-> fa, mem |-> mem, frames |-> sp.frames],
                              sp.root_frame, sp.page_mode, c.vpn, c.ppn, c.n, c.flags)
       IN  /\ fa' = r.fa
           /\ mem' = r.mem
           /\ spaces' = [spaces EXCEPT
                  ![s].frames = r.frames,
                  ![s].maps = @ + 1,
                  ![s].done = IF r.ret = "Ok" THEN @ \cup {c} ELSE @]
           /\ result' = [op |-> "allocate_map", space |-> s, arg |-> c,
                         ret |-> r.ret, frags |-> <<>>,
                         hit |-> HitsMapped(mem, sp, c)]
           /\ aborted' = (r.ret = "Panic")
    /\ dealloc_log' = <<>>
    /\ UNCHANGED <<issued, freed, coreVars, pureVars>>

\* drop(space)
DropSpace(s) ==
    /\ ~aborted
    /\ spaces[s].alive
    /\ LET r == PagedAddrSpace_drop(fa, spaces[s].root_frame, spaces[s].frames)
       IN  /\ fa' = r.st
           /\ dealloc_log' = r.log
           /\ result' = [op |-> "drop", space |-> s, arg |-> spaces[s],
                         ret |-> r.ret, frags |-> <<>>, hit |-> FALSE]
           /\ aborted' = (r.ret = "Panic")
    /\ spaces' = [spaces EXCEPT ![s] = [NoSpace EXCEPT !.maps = spaces[s].maps, !.news = spaces[s].news]]
    /\ UNCHANGED <<mem, issued, freed, coreVars, pureVars>>

\* translate_frame_read(&space, vaddr, len, f)
TranslateFrameRead(s, c) ==
    /\ ~aborted
    /\ spaces[s].alive
    /\ LET r == translate_frame_read(mem, spaces[s].root_frame, spaces[s].page_mode,
                                     c.vaddr, c.len)
       IN  /\ result' = [op |-> "translate_frame_read", space |-> s, arg |-> c,
                         ret |-> r.ret, frags |-> r.frags, hit |-> FALSE]
           /\ aborted' = (r.ret = "Panic")
    /\ dealloc_log' = <<>>
    /\ UNCHANGED <<fa, mem, spaces, issued, freed, coreVars, pureVars>>

\* One address space and the reads of it
Next ==
    \/ \E mode \in Modes : TryNewIn("as1", mode)
    \/ \E c \in MapCases : AllocateMap("as1", c, MaxMaps)
    \/ DropSpace("as1")
    \/ \E c \in ReadCases : TranslateFrameRead("as1", c)

Spec == Init /\ [][Next]_vars

\* The mappings made while two address spaces share the allocator
SharedCases == {c \in MapCases : c.vpn \in {510, 512, 262144}}

\* The hypervisor's own space is an Sv39 space, the guest's an Sv39x4 one
ModeOf(s) == IF s = "as1" THEN "Sv39" ELSE "Sv39x4"

InitShared == Init /\ mem = EmptyMem

\* Two address spaces built from the one allocator, by any core
NextShared ==
    \/ \E s \in SpaceIds : TryNewIn(s, ModeOf(s))
    \/ \E s \in SpaceIds, c \in SharedCases : AllocateMap(s, c, MaxSharedMaps)
    \/ \E s \in SpaceIds : DropSpace(s)

SpecShared == InitShared /\ [][NextShared]_vars

-----------------------------------------------------------------------------
(* Properties of the address space, under Spec and SpecShared.            *)

LastSpace == spaces[result.space]

\* The physical page a leaf entry found at level lvl gives virtual page p
LeafTarget(entry, lvl, p) == entry_get_ppn(entry) + (p % get_layout_for_level(lvl))

\* C1: after allocate_map(vpn, ppn, n, flags) returns Ok, find_ppn(vpn + k)
\* returns, for every k in [0, n), a leaf entry that maps the page to ppn + k
\* at the level of the solver segment that covers vpn + k.
C1_MapThenFind ==
    (result.op = "allocate_map" /\ result.ret = "Ok") =>
        LET c    == result.arg
            sp   == LastSpace
            segs == solve(c.vpn, c.ppn, c.n, sp.page_mode)
        IN  \A k \in 0 .. (c.n - 1) :
                LET p == c.vpn + k
                    f == find_ppn(mem, sp.root_frame, sp.page_mode, p)
                IN  /\ f.ret = "Ok"
                    /\ entry_is_leaf_page(f.entry)
                    /\ LeafTarget(f.entry, f.level, p) = c.ppn + k
                    /\ \E i \in 1 .. Len(segs) :
                          /\ segs[i].start <= p /\ p < segs[i].end
                          /\ segs[i].level = f.level

\* C2: an allocate_map call whose range holds a page that an earlier
\* successful allocate_map of the same space mapped panics; it never returns
\* Ok or FrameAllocError after writing over or past the earlier mapping.
C2_RemapAborts ==
    (result.op = "allocate_map" /\ result.hit) => result.ret = "Panic"

\* C9: when translate_frame_read returns Ok, the callback was called in
\* ascending order of virtual page, the lengths passed to it add up to the
\* requested length, and a request of length 0 made no call.
C9_FragmentsSumToLength ==
    (result.op = "translate_frame_read" /\ result.ret = "Ok") =>
        LET fr == result.frags
        IN  /\ SumSeq([i \in 1 .. Len(fr) |-> fr[i].len]) = result.arg.len
            /\ \A i \in 1 .. Len(fr) : fr[i].len > 0
            /\ \A i \in 1 .. (Len(fr) - 1) : fr[i].vpn < fr[i + 1].vpn
            /\ fr # <<>> => fr[1].vpn = page_number(result.arg.vaddr)
            /\ result.arg.len = 0 => fr = <<>>

\* A read that returned Ok after calling the callback for three pages
C9_Witness ==
    /\ result.op = "translate_frame_read"
    /\ result.ret = "Ok"
    /\ Len(result.frags) = 3

\* C10: every fragment passed to the callback ends inside the page of its
\* leaf: offset + length is at most the page size of the leaf's level.
C10_FragmentInsidePage ==
    result.op = "translate_frame_read" =>
        \A i \in 1 .. Len(result.frags) :
            result.frags[i].offset + result.frags[i].len
                <= page_size(result.frags[i].lvl)

\* The step just taken dropped address space s
Dropped(s) == spaces[s].alive /\ result'.op = "drop" /\ result'.space = s

\* C7: while an address space is alive none of its frames is passed to
\* deallocate_frame, whatever the calls made; the drop of the space passes
\* its root frame and each intermediate frame to deallocate_frame exactly
\* once, without panic, and the frames handed out by the allocator are again
\* those of the other live spaces only.
C7_Step ==
    /\ \A s \in SpaceIds :
          (spaces[s].alive /\ ~Dropped(s)) =>
              Owned(spaces[s]) \cap SeqToSet(dealloc_log') = {}
    /\ \A s \in SpaceIds :
          Dropped(s) =>
              /\ result'.ret = "Ok"
              /\ SeqToSet(dealloc_log') = Owned(spaces[s])
              /\ Len(dealloc_log') = 1 + Len(spaces[s].frames)
              /\ Len(dealloc_log') = Cardinality(Owned(spaces[s]))
              /\ Outstanding(fa') = Outstanding(fa) \ Owned(spaces[s])
    /\ ~aborted' =>
          Outstanding(fa') =
              UNION {Owned(spaces'[s]) : s \in {t \in SpaceIds : spaces'[t].alive}}

C7_FramesFreedOnlyAtDrop == [][C7_Step]_vars

\* A space that owns two intermediate frames has been dropped while the
\* other space is alive
C7_Witness ==
    /\ result.op = "drop"
    /\ result.ret = "Ok"
    /\ Len(result.arg.frames) >= 2
    /\ Len(dealloc_log) = 1 + Len(result.arg.frames)
    /\ \E t \in SpaceIds : spaces[t].alive

\* C8: the frame sets (root and intermediate frames) of two live address
\* spaces built from the same allocator are disjoint.
C8_SpacesShareNoFrame ==
    \A s, t \in SpaceIds :
        (s # t /\ spaces[s].alive /\ spaces[t].alive) =>
            Owned(spaces[s]) \cap Owned(spaces[t]) = {}

\* Two live spaces, each with an intermediate table, and no frame left
C8_Witness ==
    /\ \A s \in SpaceIds : spaces[s].alive /\ spaces[s].frames # <<>>
    /\ fa.current = fa.end

-----------------------------------------------------------------------------
(* MapPairs::solve run on its own: the arguments are drawn from values     *)
(* around the level boundaries (512 and 512 * 512 pages).                  *)

\* Pages added to each boundary value
MaxOff == 3

SolveVpns == {b + d : b \in {0, 510, 262142, 589824}, d \in 0 .. MaxOff}
SolvePpns == {0, 1, 512, 262144, 327680}
SolveNs   == {k * u + d : k \in 0 .. 2, u \in {512, 262144}, d \in 0 .. MaxOff}
                 \cup {77777, 262656, 666666}

InitSolve ==
    /\ input \in [vpn : SolveVpns, ppn : SolvePpns, n : SolveNs, mode : Modes]
    /\ output = <<>>
    /\ result = NoResult
    /\ aborted = FALSE
    /\ IdleFa /\ IdleGhost /\ IdleSpaces /\ IdleCores

\* MapPairs::solve(vpn, ppn, n, mode), collected
Solve ==
    /\ result.op = "none"
    /\ output' = solve(input.vpn, input.ppn, input.n, input.mode)
    /\ result' = [NoResult EXCEPT !.op = "solve", !.ret = "Ok"]
    /\ UNCHANGED <<input, aborted, faVars, spaceVars, coreVars>>

NextSolve == Solve

SpecSolve == InitSolve /\ [][NextSolve]_vars

\* C4: the ranges of the segments solve produces lie inside [vpn, vpn + n),
\* no two of them overlap, and their lengths add up to n: together they are
\* exactly [vpn, vpn + n), without gap and without overlap.
C4_SegmentsPartitionRange ==
    result.op = "solve" =>
        /\ \A i \in 1 .. Len(output) :
              /\ input.vpn <= output[i].start
              /\ output[i].start < output[i].end
              /\ output[i].end <= input.vpn + input.n
        /\ \A i, j \in 1 .. Len(output) :
              i # j => \/ output[i].end <= output[j].start
                       \/ output[j].end <= output[i].start
        /\ SumSeq([i \in 1 .. Len(output) |-> output[i].end - output[i].start])
               = input.n

\* A range cut into five segments: a level-2 middle, level-1 and level-0
\* ranges on both sides of it
C4_Witness ==
    /\ result.op = "solve"
    /\ Len(output) = 5
    /\ {output[i].level : i \in 1 .. Len(output)} = {0, 1, 2}

-----------------------------------------------------------------------------
(* The allocator called directly: any sequence of allocate_frame and       *)
(* deallocate_frame, with any page of the region or next to it.            *)

\* The pages deallocate_frame is called with: the region, the page below
\* it and the page at its end
FaPages == (from - 1) .. to

\* issued[p]: allocate_frame has returned p; freed[p]: how many
\* deallocate_frame(p) calls were accepted since p was last returned
InitFA ==
    /\ IdleFa
    /\ issued = [p \in FaPages |-> FALSE]
    /\ freed = [p \in FaPages |-> 0]
    /\ result = NoResult
    /\ aborted = FALSE
    /\ IdleSpaces /\ IdleCores /\ IdlePure

\* alloc.allocate_frame()
AllocateFrame ==
    /\ ~aborted
    /\ LET r == allocate_frame(fa)
       IN  /\ fa' = r.st
           /\ result' = [op |-> "allocate_frame", ret |-> r.ret, ppn |-> r.ppn,
                         again |-> r.ret = "Ok" /\ issued[r.ppn],
                         between |-> IF r.ret = "Ok" THEN freed[r.ppn] ELSE 0]
           /\ issued' = IF r.ret = "Ok" THEN [issued EXCEPT ![r.ppn] = TRUE]
                        ELSE issued
           /\ freed' = IF r.ret = "Ok" THEN [freed EXCEPT ![r.ppn] = 0] ELSE freed
    /\ UNCHANGED <<aborted, spaceVars, coreVars, pureVars>>

\* alloc.deallocate_frame(p)
DeallocateFrame(p) ==
    /\ ~aborted
    /\ LET r == deallocate_frame(fa, p)
       IN  /\ fa' = r.st
           /\ result' = [op |-> "deallocate_frame", ret |-> r.ret, ppn |-> p,
                         again |-> FALSE, between |-> 0]
           /\ aborted' = (r.ret = "Panic")
           /\ freed' = IF r.ret = "Ok" THEN [freed EXCEPT ![p] = @ + 1] ELSE freed
    /\ UNCHANGED <<issued, spaceVars, coreVars, pureVars>>

NextFA ==
    \/ AllocateFrame
    \/ \E p \in FaPages : DeallocateFrame(p)

SpecFA == InitFA /\ [][NextFA]_vars

\* C3: a page allocate_frame returns that it has returned before was passed
\* to deallocate_frame exactly once since it was last returned.
C3_NoDoubleIssue ==
    (result.op = "allocate_frame" /\ result.ret = "Ok" /\ result.again) =>
        result.between = 1

\* A page of the region returned a second time, after its deallocation,
\* while another returned page is still out
C3_Witness ==
    /\ result.op = "allocate_frame"
    /\ result.ret = "Ok"
    /\ result.again
    /\ result.between = 1
    /\ result.ppn \in from .. (to - 1)
    /\ \E q \in FaPages : q # result.ppn /\ issued[q] /\ freed[q] = 0

-----------------------------------------------------------------------------
(* The cores share the one DefaultFrameAllocator, a spin::Mutex around the *)
(* StackFrameAllocator.  A call spins in lock() until it holds the mutex,  *)
(* reads the allocator state, writes the new state back and releases the   *)
(* mutex when the guard goes out of scope.  boxes[c] are the pages of the  *)
(* FrameBoxes core c holds.                                                *)

\* lock() on a mutex that takes every caller at once
try_lock_always(l) == TRUE

\* spin::Mutex::lock(): the acquiring compare-exchange succeeds
try_lock(l) == l = NoCore

NoOp == [kind |-> "none", ppn |-> 0]

InitLock ==
    /\ IdleFa
    /\ pc = [c \in Cores |-> "idle"]
    /\ op = [c \in Cores |-> NoOp]
    /\ local = [c \in Cores |-> StackFrameAllocator_new(from, to)]
    /\ lock = NoCore
    /\ boxes = [c \in Cores |-> {}]
    /\ result = NoResult
    /\ aborted = FALSE
    /\ IdleGhost /\ IdleSpaces /\ IdlePure /\ IdleAsid

\* Core c calls FrameBox::try_new_in(&frame_alloc)
CallTryNewIn(c) ==
    /\ ~aborted
    /\ pc[c] = "idle"
    /\ pc' = [pc EXCEPT ![c] = "lock"]
    /\ op' = [op EXCEPT ![c] = [kind |-> "try_new_in", ppn |-> 0]]
    /\ UNCHANGED <<fa, local, lock, boxes, result, aborted, issued, freed,
                   spaceVars, pureVars, asidVars>>

\* Core c drops the FrameBox of page p it holds
CallDrop(c, p) ==
    /\ ~aborted
    /\ pc[c] = "idle"
    /\ p \in boxes[c]
    /\ pc' = [pc EXCEPT ![c] = "lock"]
    /\ op' = [op EXCEPT ![c] = [kind |-> "drop", ppn |-> p]]
    /\ UNCHANGED <<fa, local, lock, boxes, result, aborted, issued, freed,
                   spaceVars, pureVars, asidVars>>

\* self.lock() of core c returns the guard
Acquire(c) ==
    /\ ~aborted
    /\ pc[c] = "lock"
    /\ try_lock(lock)
    /\ lock' = c
    /\ pc' = [pc EXCEPT ![c] = "load"]
    /\ UNCHANGED <<fa, op, local, boxes, result, aborted, issued, freed,
                   spaceVars, pureVars, asidVars>>

\* The call of core c reads the allocator's fields
Load(c) ==
    /\ ~aborted
    /\ pc[c] = "load"
    /\ local' = [local EXCEPT ![c] = fa]
    /\ pc' = [pc EXCEPT ![c] = "store"]
    /\ UNCHANGED <<fa, op, lock, boxes, result, aborted, issued, freed,
                   spaceVars, pureVars, asidVars>>

\* The call of core c writes the allocator's fields, the guard is dropped
\* and the call returns
Store(c) ==
    /\ ~aborted
    /\ pc[c] = "store"
    /\ IF op[c].kind = "try_new_in"
       THEN LET r == FrameBox_try_new_in(local[c])
            IN  /\ fa' = r.st
                /\ boxes' = IF r.ret = "Ok"
                            THEN [boxes EXCEPT ![c] = @ \cup {r.ppn}]
                            ELSE boxes
                /\ result' = [op |-> "try_new_in", core |-> c, ret |-> r.ret,
                              ppn |-> r.ppn]
                /\ UNCHANGED aborted
       ELSE LET r == FrameBox_drop(local[c], op[c].ppn)
            IN  /\ fa' = r.st
                /\ boxes' = [boxes EXCEPT ![c] = @ \ {op[c].ppn}]
                /\ result' = [op |-> "drop", core |-> c, ret |-> r.ret,
                              ppn |-> op[c].ppn]
                /\ aborted' = (r.ret = "Panic")
    /\ lock' = NoCore
    /\ pc' = [pc EXCEPT ![c] = "idle"]
    /\ op' = [op EXCEPT ![c] = NoOp]
    /\ local' = [local EXCEPT ![c] = StackFrameAllocator_new(from, to)]
    /\ UNCHANGED <<issued, freed, spaceVars, pureVars, asidVars>>

NextLock ==
    \/ \E c \in Cores : CallTryNewIn(c)
    \/ \E c \in Cores, p \in from .. (to - 1) : CallDrop(c, p)
    \/ \E c \in Cores : Acquire(c)
    \/ \E c \in Cores : Load(c)
    \/ \E c \in Cores : Store(c)

SpecLock == InitLock /\ [][NextLock]_vars

\* The pages held by the FrameBoxes of all cores
Held == UNION {boxes[c] : c \in Cores}

\* How often page p is on the recycled stack of allocator a
Recycled(a, p) == Cardinality({i \in 1 .. Len(a.recycled) : a.recycled[i] = p})

\* C5: at most one call at a time is between reading and writing the
\* allocator state; no page is held by two cores; and no update is lost:
\* the pages below the watermark are the held pages and the recycled pages,
\* each of them once.
C5_LockedCallsAtomic ==
    /\ Cardinality({c \in Cores : pc[c] \in {"load", "store"}}) <= 1
    /\ \A c \in Cores : pc[c] \in {"load", "store"} => lock = c
    /\ \A c, d \in Cores : c # d => boxes[c] \cap boxes[d] = {}
    /\ \A p \in from .. (to - 1) :
          Recycled(fa, p) + Cardinality({c \in Cores : p \in boxes[c]})
              = IF p < fa.current THEN 1 ELSE 0
    /\ Len(fa.recycled) + Cardinality(Held) = fa.current - from

\* A core spins in lock() while the other core is inside its call, each
\* holding a box, with a page on the recycled stack
C5_Witness ==
    \E c, d \in Cores :
        /\ c # d
        /\ pc[c] = "lock" /\ lock = d /\ pc[d] = "store"
        /\ boxes[c] # {} /\ boxes[d] # {}
        /\ fa.recycled # <<>>

\* The step of core c in which the drop of its box returns
DropReturns(c) == pc[c] = "store" /\ op[c].kind = "drop" /\ pc'[c] = "idle"

\* C6: the drop of a FrameBox puts its page on the recycled stack once and
\* ends the box; a page comes to the recycled stack by the drop of its box
\* only; and no page of a live box is free in the allocator, on the recycled
\* stack or at or above the watermark.
C6_Step ==
    /\ \A c \in Cores :
          DropReturns(c) =>
              /\ ~aborted'
              /\ op[c].ppn \in boxes[c]
              /\ op[c].ppn \notin Held'
              /\ Recycled(fa, op[c].ppn) = 0
              /\ Recycled(fa', op[c].ppn) = 1
    /\ \A p \in from .. (to - 1) :
          Recycled(fa', p) > Recycled(fa, p) =>
              \E c \in Cores : DropReturns(c) /\ op[c].ppn = p
    /\ \A p \in Held' :
          /\ Recycled(fa', p) = 0
          /\ ~is_within_range(p, fa'.current, fa'.end)

C6_FrameFreedOnceAtDrop == [][C6_Step]_vars

\* A box has been dropped and its page is on the recycled stack, while
\* both cores hold other boxes
C6_Witness ==
    /\ result.op = "drop"
    /\ result.ret = "Ok"
    /\ Recycled(fa, result.ppn) = 1
    /\ \A c \in Cores : boxes[c] # {}

-----------------------------------------------------------------------------
(* Properties of the reads and lookups of one address space, under Spec.   *)

\* The virtual pages the bytes [vaddr, vaddr + len) lie in
PagesOfRange(vaddr, len) ==
    IF len = 0 THEN {} ELSE page_number(vaddr) .. page_number(vaddr + len - 1)

\* C11: a translate_frame_read whose byte range [vaddr, vaddr + len) holds a
\* page that find_ppn does not resolve returns a find_ppn error
\* (InvalidEntry or NotLeafInLowestPage), never Ok.
C11_UnmappedPageFails ==
    (/\ result.op = "translate_frame_read"
     /\ \E p \in PagesOfRange(result.arg.vaddr, result.arg.len) :
           find_ppn(mem, LastSpace.root_frame, LastSpace.page_mode, p).ret # "Ok")
        => result.ret \in {"InvalidEntry", "NotLeafInLowestPage"}

-----------------------------------------------------------------------------
(* One address space built on an allocator in any state the other users of *)
(* the region may have left it in, mapped with any flags, and looked up.   *)

\* allocate_map calls made on the space
MaxFindMaps == 1

\* The allocator before the space is created: fresh; with a recycled page;
\* exhausted; exhausted with a recycled page
FindFaStates ==
    { StackFrameAllocator_new(from, to),
      [current |-> from + 2, end |-> to, recycled |-> <<from + 1, from>>],
      [current |-> to, end |-> to, recycled |-> <<>>],
      [current |-> to, end |-> to, recycled |-> <<from + 2>>] }

\* The 512 * 262144-th page: index 512 of the root table under Sv39x4
RootIndex512 == 134217728

\* The (vpn, ppn, n, flags) mapped: the three levels, flags with and without
\* R, W, X, and a page above the first 512 root slots
FindMapCases ==
    { [vpn |-> 510,    ppn |-> 511,    n |-> 4,      flags |-> FlagsRWX],
      [vpn |-> 512,    ppn |-> 1024,   n |-> 512,    flags |-> FlagR],
      [vpn |-> 0,      ppn |-> 786432, n |-> 262144, flags |-> BitOr(FlagX, FlagU)],
      [vpn |-> 515,    ppn |-> 516,    n |-> 1,      flags |-> FlagU],
      [vpn |-> 1024,   ppn |-> 2048,   n |-> 512,    flags |-> 0],
      [vpn |-> 700,    ppn |-> 701,    n |-> 2,      flags |-> FlagV],
      [vpn |-> RootIndex512, ppn |-> 0, n |-> 1,     flags |-> FlagsRWX] }

\* The pages looked up
FindCases == {0, 510, 511, 512, 515, 700, 1023, 1024, 262143, 262144,
              RootIndex512, RootIndex512 + 510}

InitFind ==
    /\ fa \in FindFaStates
    /\ mem \in {EmptyMem, StaleMem}
    /\ spaces = [s \in SpaceIds |-> NoSpace]
    /\ result = NoResult
    /\ aborted = FALSE
    /\ dealloc_log = <<>>
    /\ IdleGhost /\ IdleCores /\ IdlePure

\* space.find_ppn(vpn)
FindPpn(s, v) ==
    /\ ~aborted
    /\ spaces[s].alive
    /\ LET r == find_ppn(mem, spaces[s].root_frame, spaces[s].page_mode, v)
       IN  /\ result' = [op |-> "find_ppn", space |-> s,
                         arg |-> [vpn |-> v, entry |-> r.entry, level |-> r.level],
                         ret |-> r.ret, frags |-> <<>>, hit |-> FALSE]
           /\ aborted' = (r.ret = "Panic")
    /\ dealloc_log' = <<>>
    /\ UNCHANGED <<fa, mem, spaces, issued, freed, coreVars, pureVars>>

NextFind ==
    \/ \E mode \in Modes : TryNewIn("as1", mode)
    \/ \E c \in FindMapCases : AllocateMap("as1", c, MaxFindMaps)
    \/ \E v \in FindCases : FindPpn("as1", v)

SpecFind == InitFind /\ [][NextFind]_vars

\* The slot find_ppn reads at level lvl for page v, in the table the walk
\* from the root reaches by following the child pointers of the levels above
RECURSIVE WalkSlot(_, _, _, _, _, _)
WalkSlot(m, table, mode, v, cur, lvl) ==
    LET slot == Slot(m, table, vpn_index(mode, v, cur))
    IN  IF cur = lvl THEN slot
        ELSE WalkSlot(m, entry_get_ppn(slot), mode, v, cur - 1, lvl)

\* C12: find_ppn returns one of Ok, InvalidEntry and NotLeafInLowestPage,
\* for every page and every state of the tables: InvalidEntry with an
\* invalid slot at the level that decides, Ok with the valid leaf entry of
\* that level, NotLeafInLowestPage only with a valid level-0 slot that is not
\* a leaf.
C12_FindDecides ==
    result.op = "find_ppn" =>
        LET sp   == LastSpace
            slot == WalkSlot(mem, sp.root_frame, sp.page_mode, result.arg.vpn,
                             MAX_PAGE_LEVELS - 1, result.arg.level)
        IN  /\ result.ret \in {"Ok", "InvalidEntry", "NotLeafInLowestPage"}
            /\ result.ret = "InvalidEntry" => ~slot_is_valid(slot)
            /\ result.ret = "Ok" =>
                  /\ slot_is_valid(slot) /\ entry_is_leaf_page(slot)
                  /\ result.arg.entry = slot
            /\ result.ret = "NotLeafInLowestPage" =>
                  /\ result.arg.level = 0
                  /\ slot_is_valid(slot) /\ ~entry_is_leaf_page(slot)

\* The pages of the region the allocator can still hand out
FreePages(a) == SeqToSet(a.recycled) \cup {p \in from .. (to - 1) : p >= a.current}

\* The step is a try_new_in call for space s
TriedNew(s) ==
    /\ result'.op = "try_new_in" /\ result'.space = s
    /\ spaces'[s].news = spaces[s].news + 1

\* C13 (the creation itself): a try_new_in that returns Ok takes exactly one
\* frame from the allocator, leaves every slot of that root frame invalid and
\* the list of intermediate frames empty; one that returns FrameAllocError
\* leaves the allocator and the memory as they were.
C13_RootStep ==
    \A s \in SpaceIds :
        TriedNew(s) =>
            LET root == spaces'[s].root_frame
            IN  /\ result'.ret \in {"Ok", "FrameAllocError"}
                /\ result'.ret = "Ok" =>
                      /\ spaces'[s].alive
                      /\ spaces'[s].frames = <<>>
                      /\ root \in FreePages(fa)
                      /\ FreePages(fa') = FreePages(fa) \ {root}
                      /\ Len(fa'.recycled) + (fa'.end - fa'.current)
                            = Len(fa.recycled) + (fa.end - fa.current) - 1
                      /\ \A i \in 0 .. (TABLE_ENTRIES - 1) :
                            ~slot_is_valid(Slot(mem', root, i))
                /\ result'.ret = "FrameAllocError" =>
                      /\ fa.recycled = <<>> /\ fa.current = fa.end
                      /\ fa' = fa /\ mem' = mem
                      /\ ~spaces'[s].alive

C13_RootCreated == [][C13_RootStep]_vars

\* C13: a successful try_new_in takes one frame, leaves every root slot
\* invalid and the frame list empty, whatever the frame held before, so that
\* find_ppn on the new space returns InvalidEntry for every page; a failing
\* one returns FrameAllocError and leaves the allocator unchanged.
C13_Step ==
    /\ C13_RootStep
    /\ \A s \in SpaceIds :
          (TriedNew(s) /\ result'.ret = "Ok") =>
              \A v \in FindCases :
                  find_ppn(mem', spaces'[s].root_frame, spaces'[s].page_mode, v).ret
                      = "InvalidEntry"

C13_FreshSpaceEmpty == [][C13_Step]_vars

\* The step is an allocate_map call on space s
Mapped(s) ==
    /\ result'.op = "allocate_map" /\ result'.space = s
    /\ spaces'[s].maps = spaces[s].maps + 1

\* The slots the step wrote a mapping to: the slots that changed and do not
\* point to a frame the step added to the space's intermediate frames
MappingSlots(s) ==
    {k \in DOMAIN mem' :
        /\ Slot(mem', k[1], k[2]) # Slot(mem, k[1], k[2])
        /\ entry_get_ppn(mem'[k]) \notin
               (SeqToSet(spaces'[s].frames) \ SeqToSet(spaces[s].frames))}

\* C14: every slot allocate_map writes a mapping to holds a valid leaf
\* entry: its flags are the valid bit together with exactly the requested
\* flags, and entry_is_leaf_page classifies it as a leaf, whatever the
\* requested flags are.
C14_Step ==
    \A s \in SpaceIds :
        Mapped(s) =>
            \A k \in MappingSlots(s) :
                /\ slot_is_valid(mem'[k])
                /\ entry_flags(mem'[k]) = BitOr(FlagV, result'.arg.flags)
                /\ entry_is_leaf_page(mem'[k])

C14_WrittenSlotsAreLeaves == [][C14_Step]_vars

-----------------------------------------------------------------------------
(* Properties of MapPairs::solve, under SpecSolve.                         *)

Levels == 0 .. (MAX_PAGE_LEVELS - 1)

\* The levels whose alignment divides vpn - ppn and is at most n
FitLevels(vpn, ppn, n) ==
    {l \in Levels : /\ (vpn - ppn) % get_layout_for_level(l) = 0
                    /\ get_layout_for_level(l) <= n}

\* The greatest level of a non-empty set of levels
Coarsest(ls) == CHOOSE l \in ls : \A k \in ls : k <= l

\* The aligned block number b of level l lies wholly inside [vpn, vpn + n)
BlockInside(b, l, vpn, n) ==
    /\ vpn <= b * get_layout_for_level(l)
    /\ (b + 1) * get_layout_for_level(l) <= vpn + n

\* The aligned blocks of level l that hold a page of [s, e)
BlocksOf(s, e, l) ==
    (s \div get_layout_for_level(l)) .. ((e - 1) \div get_layout_for_level(l))

\* C15: solve emits no segment above the coarsest level i whose alignment
\* divides vpn - ppn and is at most n, and every page of the range is in a
\* segment of the coarsest level L <= i whose aligned block around the page
\* lies wholly inside [vpn, vpn + n): the blocks of a segment's own level
\* lie inside (the segment is cut at that level's alignment, inside the
\* range), and no block of a level between it and i around one of its pages
\* does.
C15_CoarsestLevels ==
    result.op = "solve" =>
        LET fit == FitLevels(input.vpn, input.ppn, input.n)
        IN  /\ fit = {} => output = <<>>
            /\ SumSeq([k \in 1 .. Len(output) |-> output[k].end - output[k].start])
                   = input.n
            /\ \A k \in 1 .. Len(output) :
                  LET seg == output[k]
                  IN  /\ seg.level <= Coarsest(fit)
                      /\ seg.start % get_layout_for_level(seg.level) = 0
                      /\ seg.end % get_layout_for_level(seg.level) = 0
                      /\ input.vpn <= seg.start /\ seg.start < seg.end
                      /\ seg.end <= input.vpn + input.n
                      /\ \A l \in Levels :
                            (seg.level < l /\ l <= Coarsest(fit)) =>
                                \A b \in BlocksOf(seg.start, seg.end, l) :
                                    ~BlockInside(b, l, input.vpn, input.n)

\* A range of more than 512 * 512 pages that the alignment of vpn - ppn
\* keeps at level 1, with level-0 pages on both sides
C15_Witness ==
    /\ result.op = "solve"
    /\ input.n >= get_layout_for_level(2)
    /\ Coarsest(FitLevels(input.vpn, input.ppn, input.n)) = 1
    /\ Len(output) = 3

\* The superpage levels l with vpn = ppn modulo the alignment of l and n an
\* exact multiple (one or more times) of that alignment
MatchLevels(vpn, ppn, n) ==
    {l \in Levels : /\ l >= 1
                    /\ (vpn - ppn) % get_layout_for_level(l) = 0
                    /\ n > 0 /\ n % get_layout_for_level(l) = 0}

\* C16, as stated: whenever vpn = ppn modulo the alignment of a superpage
\* level and n is an exact multiple of that alignment, solve emits exactly
\* one segment, at the coarsest such level, covering [vpn, vpn + n).
C16_CongruentOneSegment ==
    result.op = "solve" =>
        LET match == MatchLevels(input.vpn, input.ppn, input.n)
        IN  match # {} =>
                output = <<Seg(Coarsest(match), input.vpn, input.vpn + input.n)>>

\* C16, amended: let L be the coarsest level whose alignment divides
\* vpn - ppn and is at most n (there is one as soon as n > 0).  If vpn and n
\* are both multiples of the alignment of L, solve emits exactly one
\* segment, at level L, covering [vpn, vpn + n).
C16_AlignedOneSegment ==
    result.op = "solve" =>
        LET fit == FitLevels(input.vpn, input.ppn, input.n)
        IN  (/\ fit # {}
             /\ input.vpn % get_layout_for_level(Coarsest(fit)) = 0
             /\ input.n % get_layout_for_level(Coarsest(fit)) = 0)
                => output = <<Seg(Coarsest(fit), input.vpn, input.vpn + input.n)>>

\* Two aligned level-2 blocks mapped to an aligned physical range: one
\* level-2 segment
C16_Witness ==
    /\ result.op = "solve"
    /\ input.vpn % get_layout_for_level(2) = 0
    /\ input.ppn % get_layout_for_level(2) = 0
    /\ input.n = 2 * get_layout_for_level(2)
    /\ output = <<Seg(2, input.vpn, input.vpn + input.n)>>

\* vpn rounded up and vpn + n rounded down to the alignment of level l
UpTo(vpn, l)        == get_layout_for_level(l) * ((vpn + get_layout_for_level(l) - 1)
                                                   \div get_layout_for_level(l))
DownTo(vpn, n, l)   == get_layout_for_level(l) * ((vpn + n) \div get_layout_for_level(l))

\* The segment (l, [s, e)) if it is not empty
NonEmpty(l, s, e) == IF s = e THEN <<>> ELSE <<Seg(l, s, e)>>

\* The segments of level j when i is the coarsest level: the block at level
\* i; below it the prefix, then the suffix
OrderAt(j, i, vpn, n) ==
    IF j = i
    THEN NonEmpty(j, UpTo(vpn, j), DownTo(vpn, n, j))
    ELSE NonEmpty(j, UpTo(vpn, j), UpTo(vpn, j + 1))
         \o NonEmpty(j, DownTo(vpn, n, j + 1), DownTo(vpn, n, j))

\* Levels i, i - 1, ..., 0 in turn
RECURSIVE OrderFrom(_, _, _, _)
OrderFrom(j, i, vpn, n) ==
    IF j < 0 THEN <<>>
    ELSE OrderAt(j, i, vpn, n) \o OrderFrom(j - 1, i, vpn, n)

\* The input of test_map_solve with four segments
TestVector == [vpn |-> 589824, ppn |-> 327680, n |-> 666666, mode |-> "Sv39"]

\* C17: solve emits first the block at the coarsest level i it chose, then
\* for each finer level, from i - 1 down to 0, the prefix segment followed by
\* the suffix segment, leaving out the empty ones; for vpn = 0x90000,
\* ppn = 0x50000, n = 666666 under Sv39 these are (2, [786432, 1048576)),
\* (1, [589824, 786432)), (1, [1048576, 1256448)), (0, [1256448, 1256490)).
C17_SegmentOrder ==
    result.op = "solve" =>
        LET fit == FitLevels(input.vpn, input.ppn, input.n)
        IN  /\ output = IF fit = {} THEN <<>>
                        ELSE OrderFrom(Coarsest(fit), Coarsest(fit), input.vpn, input.n)
            /\ input = TestVector =>
                  output = << Seg(2, 786432, 1048576), Seg(1, 589824, 786432),
                              Seg(1, 1048576, 1256448), Seg(0, 1256448, 1256490) >>

\* solve has run on the test vector and returned its four segments
C17_Witness ==
    /\ result.op = "solve"
    /\ input = TestVector
    /\ Len(output) = 4
    /\ output[1].level = 2 /\ output[2].level = 1 /\ output[4].level = 0

\* C18: every segment (L, [a, b)) solve emits is not empty, a and b are
\* multiples of the alignment of L, and so is ppn + (a - vpn), the physical
\* page that corresponds to a.
C18_SegmentsAligned ==
    result.op = "solve" =>
        \A k \in 1 .. Len(output) :
            LET align == get_layout_for_level(output[k].level)
            IN  /\ output[k].start < output[k].end
                /\ output[k].start % align = 0
                /\ output[k].end % align = 0
                /\ (input.ppn + (output[k].start - input.vpn)) % align = 0

\* Superpage segments of two levels for a physical range that lies above
\* the virtual one
C18_Witness ==
    /\ result.op = "solve"
    /\ input.ppn > input.vpn
    /\ \E k \in 1 .. Len(output) : output[k].level = 2
    /\ \E k \in 1 .. Len(output) : output[k].level = 1

-----------------------------------------------------------------------------
(* Properties of allocate_frame, under SpecFA.                             *)

\* C19: with a page on the recycled stack allocate_frame returns the page
\* deallocated last among those on the stack, takes it off the stack and
\* leaves the watermark where it is; with an empty stack, and only then, it
\* returns the watermark page and advances the watermark by one.
C19_Step ==
    result'.op = "allocate_frame" =>
        IF fa.recycled # <<>>
        THEN /\ result'.ret = "Ok"
             /\ result'.ppn = fa.recycled[Len(fa.recycled)]
             /\ fa'.recycled = SubSeq(fa.recycled, 1, Len(fa.recycled) - 1)
             /\ fa'.current = fa.current
        ELSE /\ fa'.recycled = <<>>
             /\ result'.ret = "Ok" =>
                   /\ result'.ppn = fa.current
                   /\ fa'.current = fa.current + 1
             /\ result'.ret # "Ok" => fa'.current = fa.current

C19_RecycledFirst == [][C19_Step]_vars

\* A recycled page has been returned while the watermark could still
\* advance and another page stays on the stack
C19_Witness ==
    /\ result.op = "allocate_frame"
    /\ result.ret = "Ok"
    /\ result.again
    /\ fa.recycled # <<>>
    /\ fa.current < fa.end

\* C20: allocate_frame returns FrameAllocError exactly when the watermark
\* is at the end of the region and the recycled stack is empty; the failing
\* call changes nothing in the allocator; with a deallocated page on the
\* stack the call succeeds again, also at the end of the region.
C20_Step ==
    result'.op = "allocate_frame" =>
        /\ result'.ret \in {"Ok", "FrameAllocError"}
        /\ result'.ret = "FrameAllocError"
              <=> (fa.current = fa.end /\ fa.recycled = <<>>)
        /\ result'.ret = "FrameAllocError" => fa' = fa
        /\ (fa.current = fa.end /\ fa.recycled # <<>>) =>
              /\ result'.ret = "Ok"
              /\ freed[result'.ppn] = 1

C20_FailsOnlyWhenExhausted == [][C20_Step]_vars

\* With the watermark at the end of the region the call has returned a
\* page that had been deallocated, and the recycled stack is empty again
C20_Witness ==
    /\ result.op = "allocate_frame"
    /\ result.ret = "Ok"
    /\ result.again
    /\ fa.current = fa.end
    /\ fa.recycled = <<>>

-----------------------------------------------------------------------------
(* Properties of deallocate_frame, under SpecFA.                           *)

\* C21: deallocate_frame(p) panics and leaves the allocator as it was when
\* p lies in [watermark, end) or is on the recycled stack; otherwise it
\* pushes p onto the recycled stack and changes nothing else.
C21_Step ==
    result'.op = "deallocate_frame" =>
        LET p == result'.ppn
        IN  IF \/ (fa.current <= p /\ p < fa.end)
               \/ \E i \in 1 .. Len(fa.recycled) : fa.recycled[i] = p
            THEN /\ result'.ret = "Panic"
                 /\ aborted'
                 /\ fa' = fa
            ELSE /\ result'.ret = "Ok"
                 /\ ~aborted'
                 /\ fa'.recycled = fa.recycled \o <<p>>
                 /\ fa'.current = fa.current
                 /\ fa'.end = fa.end

C21_InvalidFreePanics == [][C21_Step]_vars

\* A page that is on the recycled stack has been deallocated again: panic
C21_Witness ==
    /\ result.op = "deallocate_frame"
    /\ result.ret = "Panic"
    /\ result.ppn < fa.current
    /\ \E i \in 1 .. Len(fa.recycled) : fa.recycled[i] = result.ppn

\* C22: deallocate_frame(p) panics for every p that is not allocated from
\* this allocator at the time of the call: a page allocate_frame never
\* returned, or has not returned again since its last deallocation,
\* whether p lies inside the region, below its start or at or after its end.
C22_Step ==
    (/\ result'.op = "deallocate_frame"
     /\ ~(issued[result'.ppn] /\ freed[result'.ppn] = 0))
        => result'.ret = "Panic"

C22_UnallocatedFreePanics == [][C22_Step]_vars

-----------------------------------------------------------------------------
(* StackAsidAllocator: the address space tags of one core.                 *)

\* AddressSpaceId(u16)
AsidWidth == 65536

DEFAULT_ASID == 0

\* AddressSpaceId::next_asid(max_asid): an Option
next_asid(asid, max_asid) ==
    IF asid >= max_asid
    THEN [some |-> FALSE, asid |-> 0]
    ELSE [some |-> TRUE, asid |-> (asid + 1) % AsidWidth]

\* StackAsidAllocator::new(max_asid)
StackAsidAllocator_new(max_asid) ==
    [current |-> DEFAULT_ASID, exhausted |-> FALSE, max |-> max_asid,
     recycled |-> <<>>]

\* allocate_asid that gives up at the maximum tag instead of returning it
allocate_asid_skip_max(a) ==
    IF a.recycled # <<>>
    THEN [st |-> [a EXCEPT !.recycled = Front(a.recycled)],
          ret |-> "Ok", asid |-> Last(a.recycled)]
    ELSE IF a.exhausted \/ a.current = a.max
    THEN [st |-> [a EXCEPT !.exhausted = TRUE], ret |-> "AsidAllocError",
          asid |-> 0]
    ELSE [st |-> [a EXCEPT !.current = a.current + 1], ret |-> "Ok",
          asid |-> a.current]

\* allocate_asid that takes the oldest recycled tag
allocate_asid_fifo(a) ==
    IF a.recycled # <<>>
    THEN [st |-> [a EXCEPT !.recycled = Tail(a.recycled)],
          ret |-> "Ok", asid |-> Head(a.recycled)]
    ELSE IF a.exhausted
    THEN [st |-> a, ret |-> "AsidAllocError", asid |-> 0]
    ELSE IF a.current = a.max
    THEN [st |-> [a EXCEPT !.exhausted = TRUE], ret |-> "Ok", asid |-> a.max]
    ELSE [st |-> [a EXCEPT !.current = a.current + 1], ret |-> "Ok",
          asid |-> a.current]

\* allocate_asid that does not record that the maximum tag is gone
allocate_asid_no_exhaust(a) ==
    IF a.recycled # <<>>
    THEN [st |-> [a EXCEPT !.recycled = Front(a.recycled)],
          ret |-> "Ok", asid |-> Last(a.recycled)]
    ELSE IF a.exhausted
    THEN [st |-> a, ret |-> "AsidAllocError", asid |-> 0]
    ELSE IF a.current = a.max
    THEN [st |-> a, ret |-> "Ok", asid |-> a.max]
    ELSE [st |-> [a EXCEPT !.current = a.current + 1], ret |-> "Ok",
          asid |-> a.current]

\* StackAsidAllocator::allocate_asid
allocate_asid(a) ==
    IF a.recycled # <<>>
    THEN [st |-> [a EXCEPT !.recycled = Front(a.recycled)],
          ret |-> "Ok", asid |-> Last(a.recycled)]
    ELSE IF a.exhausted
    THEN [st |-> a, ret |-> "AsidAllocError", asid |-> 0]
    ELSE IF a.current = a.max
    THEN [st |-> [a EXCEPT !.exhausted = TRUE], ret |-> "Ok", asid |-> a.max]
    ELSE LET next == next_asid(a.current, a.max)
         IN  IF next.some
             THEN [st |-> [a EXCEPT !.current = next.asid], ret |-> "Ok",
                   asid |-> a.current]
             ELSE [st |-> a, ret |-> "AsidAllocError", asid |-> 0]

\* StackAsidAllocator::deallocate_asid
deallocate_asid(a, asid) ==
    IF \/ ~next_asid(asid, a.max).some
       \/ \E i \in 1 .. Len(a.recycled) : a.recycled[i] = asid
    THEN [st |-> a, ret |-> "Panic"]
    ELSE [st |-> [a EXCEPT !.recycled = Append(a.recycled, asid)],
          ret |-> "Ok"]

-----------------------------------------------------------------------------
(* SpecAsid: any sequence of calls on one StackAsidAllocator.              *)

\* The largest maximum tag max_asid() reports
MaxAsid == 3

\* The number of allocate_asid calls followed
MaxAsidCalls == 6

\* asid_log: the allocate_asid calls made, whether deallocate_asid has been
\* called, the tags deallocate_asid accepted that have not been returned
\* since (oldest first), the times the maximum tag has been returned, and
\* the tags allocate_asid returned that deallocate_asid has not accepted
\* since
NoAsidLog == [allocs |-> 0, deallocated |-> FALSE, pending |-> <<>>,
              max_given |-> 0, held |-> {}]

\* The first index of x in the sequence s, 0 when absent
IndexOf(s, x) ==
    IF \E i \in 1 .. Len(s) : s[i] = x
    THEN CHOOSE i \in 1 .. Len(s) : s[i] = x /\ \A j \in 1 .. i - 1 : s[j] # x
    ELSE 0

\* The sequence s without its element at index i
RemoveAt(s, i) ==
    IF i = 0 THEN s ELSE SubSeq(s, 1, i - 1) \o SubSeq(s, i + 1, Len(s))

InitAsid ==
    /\ asid_alloc \in {StackAsidAllocator_new(t) : t \in 0 .. MaxAsid}
    /\ asid_log = NoAsidLog
    /\ result = NoResult
    /\ aborted = FALSE
    /\ IdleFa /\ IdleGhost /\ IdleSpaces /\ IdleLock /\ IdlePure

\* alloc.allocate_asid()
AllocateAsid ==
    /\ ~aborted
    /\ asid_log.allocs < MaxAsidCalls
    /\ LET r == allocate_asid(asid_alloc)
       IN  /\ asid_alloc' = r.st
           /\ result' = [op |-> "allocate_asid", ret |-> r.ret, asid |-> r.asid]
           /\ asid_log' =
                [asid_log EXCEPT
                    !.allocs = @ + 1,
                    !.pending = IF r.ret = "Ok"
                                THEN RemoveAt(@, IndexOf(@, r.asid)) ELSE @,
                    !.max_given = IF r.ret = "Ok" /\ r.asid = asid_alloc.max
                                  THEN Min(@ + 1, 2) ELSE @,
                    !.held = IF r.ret = "Ok" THEN @ \cup {r.asid} ELSE @]
    /\ UNCHANGED <<aborted, faVars, spaceVars, lockVars, pureVars>>

\* alloc.deallocate_asid(AddressSpaceId(asid))
DeallocateAsid(asid) ==
    /\ ~aborted
    /\ LET r == deallocate_asid(asid_alloc, asid)
       IN  /\ asid_alloc' = r.st
           /\ result' = [op |-> "deallocate_asid", ret |-> r.ret, asid |-> asid]
           /\ aborted' = (r.ret = "Panic")
           /\ asid_log' =
                [asid_log EXCEPT
                    !.deallocated = TRUE,
                    !.pending = IF r.ret = "Ok" THEN Append(@, asid) ELSE @,
                    !.held = IF r.ret = "Ok" THEN @ \ {asid} ELSE @]
    /\ UNCHANGED <<faVars, spaceVars, lockVars, pureVars>>

NextAsid ==
    \/ AllocateAsid
    \/ \E asid \in 0 .. asid_alloc.max + 1 : DeallocateAsid(asid)

SpecAsid == InitAsid /\ [][NextAsid]_vars

\* C23: on a fresh allocator of maximum tag T, while deallocate_asid has
\* not been called, the calls of allocate_asid return 0, 1, ..., T in this
\* order and every later call returns AsidAllocError.
C23_Step ==
    (result'.op = "allocate_asid" /\ ~asid_log.deallocated) =>
        IF asid_log.allocs <= asid_alloc.max
        THEN result'.ret = "Ok" /\ result'.asid = asid_log.allocs
        ELSE result'.ret = "AsidAllocError"

C23_CountsUpToMax == [][C23_Step]_vars

\* All of 0 .. T has been returned and the next call has failed
C23_Witness ==
    /\ ~asid_log.deallocated
    /\ asid_alloc.max = MaxAsid
    /\ asid_log.allocs = asid_alloc.max + 2
    /\ result.op = "allocate_asid"
    /\ result.ret = "AsidAllocError"

\* With maximum tag 0 the first call has returned 0 and the second failed
C23_WitnessZero ==
    /\ ~asid_log.deallocated
    /\ asid_alloc.max = 0
    /\ asid_log.allocs = 2
    /\ result.ret = "AsidAllocError"

\* C24: the allocate_asid that follows an accepted deallocate_asid(k)
\* returns k, and while tags accepted by deallocate_asid are waiting the
\* call returns the one accepted last; in both cases, exhausted or not, the
\* watermark and the exhausted flag stay as they were.
C24_Step ==
    result'.op = "allocate_asid" =>
        /\ (result.op = "deallocate_asid" /\ result.ret = "Ok") =>
                /\ result'.ret = "Ok"
                /\ result'.asid = result.asid
        /\ asid_log.pending # <<>> =>
                /\ result'.ret = "Ok"
                /\ result'.asid = Last(asid_log.pending)
                /\ asid_alloc'.current = asid_alloc.current
                /\ asid_alloc'.exhausted = asid_alloc.exhausted

C24_FreedTagFirst == [][C24_Step]_vars

\* After the maximum tag was given out, one of two waiting tags has been
\* returned
C24_Witness ==
    /\ result.op = "allocate_asid"
    /\ result.ret = "Ok"
    /\ asid_alloc.exhausted
    /\ asid_log.max_given = 1
    /\ result.asid < asid_alloc.max
    /\ asid_log.pending # <<>>

\* C25: the maximum tag is returned once, by the call that finds the
\* watermark at the maximum and sets the exhausted flag; the flag is never
\* cleared; an exhausted allocator returns only tags of the recycled stack
\* and, when the stack is empty, AsidAllocError without a change of state;
\* no returned tag is above the maximum.
C25_Step ==
    /\ asid_alloc.exhausted => asid_alloc'.exhausted
    /\ asid_log'.max_given <= 1
    /\ result'.op = "allocate_asid" =>
        /\ result'.ret = "Ok" => result'.asid <= asid_alloc.max
        /\ (result'.ret = "Ok" /\ result'.asid = asid_alloc.max) =>
                /\ ~asid_alloc.exhausted
                /\ asid_alloc.current = asid_alloc.max
                /\ asid_alloc'.exhausted
        /\ asid_alloc.exhausted =>
                IF asid_alloc.recycled # <<>>
                THEN /\ result'.ret = "Ok"
                     /\ \E i \in 1 .. Len(asid_alloc.recycled) :
                            asid_alloc.recycled[i] = result'.asid
                ELSE /\ result'.ret = "AsidAllocError"
                     /\ asid_alloc' = asid_alloc

C25_MaxOnceThenExhausted == [][C25_Step]_vars

\* An exhausted allocator with nothing recycled has refused a call, after
\* it had served a recycled tag
C25_Witness ==
    /\ result.op = "allocate_asid"
    /\ result.ret = "AsidAllocError"
    /\ asid_alloc.exhausted
    /\ asid_log.max_given = 1
    /\ asid_log.deallocated
    /\ asid_log.allocs >= asid_alloc.max + 3

\* C26: deallocate_asid(tag) panics and leaves the allocator as it was
\* when tag is above max or on the recycled stack; every other tag, that
\* is every tag of 0 .. max not on the stack, is pushed onto the stack.
C26_Step ==
    result'.op = "deallocate_asid" =>
        LET tag == result'.asid
        IN  IF \/ tag > asid_alloc.max
               \/ \E i \in 1 .. Len(asid_alloc.recycled) :
                      asid_alloc.recycled[i] = tag
            THEN /\ result'.ret = "Panic"
                 /\ asid_alloc' = asid_alloc
            ELSE /\ result'.ret = "Ok"
                 /\ asid_alloc'.recycled = Append(asid_alloc.recycled, tag)

C26_InvalidTagPanics == [][C26_Step]_vars

-----------------------------------------------------------------------------
(* SpecLevel: the operations of a paging mode that take a page level,      *)
(* called with any level a PageLevel(u8) of the bounded range can hold.    *)
(* Each operation yields the set of its outcomes: one outcome, or two      *)
(* where builds with and without overflow checks differ.                   *)

\* The largest PageLevel called with
MaxLevel == 8

\* usize::BITS of the 64-bit targets Sv39 exists on
UsizeBits == 64

\* x >> k for k < UsizeBits; the modelled x are below 2^31
ShrWide(x, k) == IF k >= 31 THEN 0 ELSE Shr(x, k)

\* x >> k as the build computes it: a shift by UsizeBits or more panics
\* with overflow checks and is taken modulo UsizeBits without
ShiftOutcomes(x, k) ==
    IF k < UsizeBits
    THEN {[ret |-> "Ok", value |-> ShrWide(x, k)]}
    ELSE {[ret |-> "Panic", value |-> 0],
          [ret |-> "Ok", value |-> ShrWide(x, k % UsizeBits)]}

\* The loop of get_layout_for_level on align_in_frames = 2^bits with n
\* rounds left: [ret, bits]; leading_zeros of 2^bits is UsizeBits - 1 - bits
RECURSIVE LayoutLoop(_, _)
LayoutLoop(bits, n) ==
    IF n = 0 THEN [ret |-> "Ok", bits |-> bits]
    ELSE IF UsizeBits - 1 - bits < PAGE_ENTRIES_BITS
    THEN [ret |-> "Panic", bits |-> bits]
    ELSE LayoutLoop(bits + PAGE_ENTRIES_BITS, n - 1)

\* PageMode::get_layout_for_level for any level; frames is the alignment
\* where it is below 2^31 and -1 above
get_layout_for_level_any(level) ==
    LET r == LayoutLoop(0, level)
    IN  {[ret |-> r.ret, bits |-> r.bits,
          frames |-> IF r.ret = "Ok" /\ level < MAX_PAGE_LEVELS + 1
                     THEN get_layout_for_level(level) ELSE -1]}

\* PageMode::visit_levels_until / before / from for any level
visit_levels_until_any(level) ==
    IF level < MAX_PAGE_LEVELS
    THEN {[ret |-> "Ok", levels |-> visit_levels_until(level)]}
    ELSE {[ret |-> "Panic", levels |-> <<>>]}

visit_levels_before_any(level) ==
    IF level < MAX_PAGE_LEVELS
    THEN {[ret |-> "Ok", levels |-> visit_levels_before(level)]}
    ELSE {[ret |-> "Panic", levels |-> <<>>]}

visit_levels_from_any(level) ==
    IF level < MAX_PAGE_LEVELS
    THEN {[ret |-> "Ok", levels |-> visit_levels_from(level)]}
    ELSE {[ret |-> "Panic", levels |-> <<>>]}

\* Sv39::vpn_index and Sv39x4::vpn_index for any level
vpn_index_any(mode, vpn, level) ==
    IF mode = "Sv39x4" /\ level > 2
    THEN {[ret |-> "Panic", value |-> 0]}
    ELSE {[ret |-> s.ret,
           value |-> IF s.ret = "Ok"
                     THEN s.value % (vpn_mask_by_level(mode, level) + 1)
                     ELSE 0] :
            s \in ShiftOutcomes(vpn, level * 9)}

\* Sv39::vpn_index_range and Sv39x4::vpn_index_range for any level
vpn_index_range_any(mode, vs, ve, level) ==
    IF mode = "Sv39x4" /\ level > 2
    THEN {[ret |-> "Panic", value |-> <<0, 0>>]}
    ELSE IF level <= 2
    THEN {[ret |-> "Ok", value |-> vpn_index_range(mode, vs, ve, level)]}
    ELSE {[ret |-> IF s.ret = "Ok" /\ e.ret = "Ok" THEN "Ok" ELSE "Panic",
           value |-> IF s.ret = "Ok" /\ e.ret = "Ok"
                     THEN <<s.value % 512, e.value % 512>>
                     ELSE <<0, 0>>] :
            s \in ShiftOutcomes(vs, level * 9),
            e \in ShiftOutcomes(ve, level * 9)}

\* Sv39::vpn_level_index for any level (Sv39x4 forwards to it)
vpn_level_index_any(vpn, level, idx) ==
    IF level <= 2
    THEN {[ret |-> "Ok", value |-> vpn_level_index(vpn, level, idx)]}
    ELSE {[ret |-> "Panic", value |-> 0]}

\* The first page of the last level-2 block of Sv39: 511 * 262144
LastRootBlock == 133955584

\* Pages of every alignment, up to the last of Sv39 and above it
LevelVpns == {0, 512, 515, 261632, 262149, LastRootBlock, RootIndex512 - 1,
              RootIndex512}
LevelLens == {1, 512, 262144}
LevelIdxs == {0, 3}

InitLevel ==
    /\ input \in [mode : Modes, level : 0 .. MaxLevel, vpn : LevelVpns,
                  n : LevelLens, idx : LevelIdxs]
    /\ output = <<>>
    /\ result = NoResult
    /\ aborted = FALSE
    /\ IdleFa /\ IdleGhost /\ IdleSpaces /\ IdleCores

\* The call `name` has had the outcome r
Returned(name, r) ==
    /\ result.op = "none"
    /\ output' = r
    /\ result' = [NoResult EXCEPT !.op = name, !.ret = r.ret]
    /\ aborted' = (r.ret = "Panic")
    /\ UNCHANGED <<input, faVars, spaceVars, coreVars>>

\* M::get_layout_for_level(PageLevel(level))
GetLayoutForLevel ==
    \E r \in get_layout_for_level_any(input.level) :
        Returned("get_layout_for_level", r)

\* M::visit_levels_until(PageLevel(level)).collect()
VisitLevelsUntil ==
    \E r \in visit_levels_until_any(input.level) :
        Returned("visit_levels_until", r)

\* M::visit_levels_before(PageLevel(level)).collect()
VisitLevelsBefore ==
    \E r \in visit_levels_before_any(input.level) :
        Returned("visit_levels_before", r)

\* M::visit_levels_from(PageLevel(level)).collect()
VisitLevelsFrom ==
    \E r \in visit_levels_from_any(input.level) :
        Returned("visit_levels_from", r)

\* M::vpn_index(vpn, PageLevel(level))
VpnIndex ==
    \E r \in vpn_index_any(input.mode, input.vpn, input.level) :
        Returned("vpn_index", r)

\* M::vpn_index_range(vpn .. vpn + n, PageLevel(level))
VpnIndexRange ==
    \E r \in vpn_index_range_any(input.mode, input.vpn, input.vpn + input.n,
                                 input.level) :
        Returned("vpn_index_range", r)

\* M::vpn_level_index(vpn, PageLevel(level), idx)
VpnLevelIndex ==
    \E r \in vpn_level_index_any(input.vpn, input.level, input.idx) :
        Returned("vpn_level_index", r)

NextLevel ==
    \/ GetLayoutForLevel
    \/ VisitLevelsUntil
    \/ VisitLevelsBefore
    \/ VisitLevelsFrom
    \/ VpnIndex
    \/ VpnIndexRange
    \/ VpnLevelIndex

SpecLevel == InitLevel /\ [][NextLevel]_vars

\* The levels hi, hi - 1, ..., lo (none when hi < lo)
Descending(hi, lo) == [i \in 1 .. (hi - lo + 1) |-> hi + 1 - i]

\* C27: with three levels and L in {0, 1, 2}, visit_levels_until(L) yields
\* 2, ..., L, visit_levels_before(L) yields 2, ..., L + 1 (nothing for
\* L = 2) and visit_levels_from(L) yields L, ..., 0; each sequence is
\* finite and strictly descending.
C27_LevelSequences ==
    (/\ result.op \in {"visit_levels_until", "visit_levels_before",
                       "visit_levels_from"}
     /\ input.level < MAX_PAGE_LEVELS)
        => /\ result.ret = "Ok"
           /\ result.op = "visit_levels_until" =>
                output.levels = Descending(MAX_PAGE_LEVELS - 1, input.level)
           /\ result.op = "visit_levels_before" =>
                output.levels = Descending(MAX_PAGE_LEVELS - 1, input.level + 1)
           /\ result.op = "visit_levels_from" =>
                output.levels = Descending(input.level, 0)
           /\ \A i, j \in 1 .. Len(output.levels) :
                i < j => output.levels[i] > output.levels[j]

\* visit_levels_before(0) has yielded 2, 1
C27_Witness ==
    /\ result.op = "visit_levels_before"
    /\ input.level = 0
    /\ output.levels = <<2, 1>>

\* visit_levels_before(2) has yielded nothing
C27_WitnessEmpty ==
    /\ result.op = "visit_levels_before"
    /\ input.level = 2
    /\ result.ret = "Ok"
    /\ output.levels = <<>>

\* C28: get_layout_for_level(L) has the alignment 2^(PAGE_ENTRIES_BITS * L)
\* frames: 1, 512 and 512 * 512 for the levels 0, 1 and 2.
C28_LayoutPowers ==
    (result.op = "get_layout_for_level" /\ input.level < MAX_PAGE_LEVELS)
        => /\ result.ret = "Ok"
           /\ output.bits = PAGE_ENTRIES_BITS * input.level
           /\ output.frames = Pow2(PAGE_ENTRIES_BITS * input.level)
           /\ input.level = 0 => output.frames = 1
           /\ input.level = 1 => output.frames = 512
           /\ input.level = 2 => output.frames = 512 * 512

\* get_layout_for_level(2) has returned 262144 frames
C28_Witness ==
    /\ result.op = "get_layout_for_level"
    /\ input.level = 2
    /\ output.frames = 262144

\* C29: every operation of a paging mode that takes a level panics when
\* the level is MAX_PAGE_LEVELS or more, for Sv39 and for Sv39x4.
C29_BadLevelPanics ==
    (result.op # "none" /\ input.level >= MAX_PAGE_LEVELS)
        => result.ret = "Panic"

-----------------------------------------------------------------------------
(* SpecRetry: one address space whose allocator is also used by the        *)
(* FrameBox values of the cores; an allocate_map call that returned        *)
(* FrameAllocError is made again with the same arguments.                  *)

\* The calls of allocate_map made again after a failure
MaxRetries == 1

\* The (vpn, ppn, n, flags) mapped: one segment under one new table, under
\* two new tables, and two segments of which the second needs a table more
RetryCases ==
    { [vpn |-> 515, ppn |-> 516,    n |-> 1,      flags |-> FlagR],
      [vpn |-> 512, ppn |-> 1024,   n |-> 512,    flags |-> FlagsRWX],
      [vpn |-> 510, ppn |-> 511,    n |-> 4,      flags |-> FlagsRWX],
      [vpn |-> 512, ppn |-> 1024,   n |-> 513,    flags |-> FlagsRWX],
      [vpn |-> 0,   ppn |-> 262144, n |-> 262145, flags |-> FlagsRWX] }

\* The tables the largest of the RetryCases needs below the root
RetryTables == 3

InitRetry ==
    /\ IdleFa
    /\ mem = EmptyMem
    /\ spaces = [s \in SpaceIds |-> NoSpace]
    /\ boxes = [c \in Cores |-> {}]
    /\ input = <<>>
    /\ output = <<>>
    /\ result = NoResult
    /\ aborted = FALSE
    /\ dealloc_log = <<>>
    /\ pc = <<>> /\ op = <<>> /\ local = <<>> /\ lock = NoCore
    /\ IdleGhost /\ IdleAsid

\* Core c makes a FrameBox: FrameBox::try_new_in(&frame_alloc)
TakeFrame(c) ==
    /\ ~aborted
    /\ LET r == FrameBox_try_new_in(fa)
       IN  /\ fa' = r.st
           /\ boxes' = IF r.ret = "Ok"
                       THEN [boxes EXCEPT ![c] = @ \cup {r.ppn}]
                       ELSE boxes
           /\ result' = [NoResult EXCEPT !.op = "try_new_in", !.ret = r.ret]
    /\ UNCHANGED <<mem, spaces, dealloc_log, aborted, input, output, issued,
                   freed, pc, op, local, lock, asidVars>>

\* Core c drops its FrameBox of page p
GiveFrame(c, p) ==
    /\ ~aborted
    /\ p \in boxes[c]
    /\ LET r == FrameBox_drop(fa, p)
       IN  /\ fa' = r.st
           /\ aborted' = (r.ret = "Panic")
           /\ result' = [NoResult EXCEPT !.op = "drop", !.ret = r.ret]
    /\ boxes' = [boxes EXCEPT ![c] = @ \ {p}]
    /\ UNCHANGED <<mem, spaces, dealloc_log, input, output, issued, freed,
                   pc, op, local, lock, asidVars>>

\* space.allocate_map(vpn, ppn, n, flags): the first call on the space, or
\* the call that returned FrameAllocError made again; input keeps the
\* arguments of a call that returned FrameAllocError
MapCall(s, c) ==
    /\ ~aborted
    /\ spaces[s].alive
    /\ \/ spaces[s].maps = 0
       \/ (c = input /\ spaces[s].maps <= MaxRetries)
    /\ LET sp == spaces[s]
           r  == allocate_map([fa |-> fa, mem |-> mem, frames |-> sp.frames],
                              sp.root_frame, sp.page_mode, c.vpn, c.ppn, c.n, c.flags)
       IN  /\ fa' = r.fa
           /\ mem' = r.mem
           /\ spaces' = [spaces EXCEPT
                  ![s].frames = r.frames,
                  ![s].maps = @ + 1,
                  ![s].done = IF r.ret = "Ok" THEN @ \cup {c} ELSE @]
           /\ result' = [op |-> IF sp.maps = 0 THEN "allocate_map"
                                ELSE "allocate_map again",
                         space |-> s, arg |-> c,
                         ret |-> r.ret, frags |-> <<>>, hit |-> FALSE]
           /\ aborted' = (r.ret = "Panic")
           /\ input' = IF r.ret = "FrameAllocError" THEN c ELSE <<>>
    /\ dealloc_log' = <<>>
    /\ UNCHANGED <<output, issued, freed, lockVars, asidVars>>

NextRetry ==
    \/ \E mode \in Modes : TryNewIn("as1", mode)
    \/ \E c \in Cores : TakeFrame(c)
    \/ \E c \in Cores, p \in from .. (to - 1) : GiveFrame(c, p)
    \/ \E c \in RetryCases : MapCall("as1", c)

SpecRetry == InitRetry /\ [][NextRetry]_vars

\* The slots of memory that hold a leaf entry
LeafSlots(m) ==
    {k \in DOMAIN m : slot_is_valid(m[k]) /\ entry_is_leaf_page(m[k])}

\* C30: an allocate_map that returns FrameAllocError has installed no leaf
\* entry, and when the call is made again with enough free frames for all
\* its tables it returns Ok instead of panicking on a valid slot.
C30_Step ==
    /\ (result'.op \in {"allocate_map", "allocate_map again"}
        /\ result'.ret = "FrameAllocError")
            => LeafSlots(mem') = LeafSlots(mem)
    /\ (result'.op = "allocate_map again"
        /\ Cardinality(FreePages(fa)) >= RetryTables)
            => result'.ret = "Ok"

C30_FailedMapRetryable == [][C30_Step]_vars

\* A failed call made again has returned Ok
C30_RetrySucceeded ==
    /\ result.op = "allocate_map again"
    /\ result.ret = "Ok"

-----------------------------------------------------------------------------
(* Properties of the tags in use, under SpecAsid.                          *)

\* C31: while no call has panicked, allocate_asid does not return a tag it
\* has returned before unless deallocate_asid accepted the tag in between:
\* no tag has two holders.
C31_Step ==
    (result'.op = "allocate_asid" /\ result'.ret = "Ok" /\ ~aborted')
        => result'.asid \notin asid_log.held

C31_NoTagTwice == [][C31_Step]_vars

\* C32: deallocate_asid of a tag that allocate_asid has returned and that
\* has not been deallocated since, the maximum tag included, returns
\* without a panic, and the allocate_asid that follows returns this tag.
C32_Step ==
    /\ (result'.op = "deallocate_asid" /\ result'.asid \in asid_log.held)
            => result'.ret = "Ok"
    /\ (/\ result.op = "deallocate_asid" /\ result.ret = "Ok"
        /\ result'.op = "allocate_asid")
            => result'.ret = "Ok" /\ result'.asid = result.asid

C32_HeldTagReturnable == [][C32_Step]_vars

-----------------------------------------------------------------------------
(* Properties of the table indices, under SpecLevel.                       *)

\* The virtual page numbers of a mode: 27 bits under Sv39, 29 under Sv39x4
VpnWidth(mode) == IF mode = "Sv39x4" THEN 4 * RootIndex512 ELSE RootIndex512

\* The call had a level of the mode
LevelExists == input.level < MAX_PAGE_LEVELS

\* C33: for every page of the mode's address width and every level of the
\* mode, vpn_index and every member of vpn_index_range is smaller than
\* the 512 slots of a page table, under Sv39 and under Sv39x4.
C33_IndexInsideTable ==
    (LevelExists /\ result.ret = "Ok" /\ input.vpn < VpnWidth(input.mode))
        => /\ result.op = "vpn_index" => output.value < TABLE_ENTRIES
           /\ result.op = "vpn_index_range" =>
                \A i \in output.value[1] .. (output.value[2] - 1) :
                    i < TABLE_ENTRIES

\* C34: for a range [a, b) of pages aligned to level L with a < b,
\* vpn_index_range starts at vpn_index(a, L), ends at vpn_index(b, L) when
\* a and b lie in the same block of level L + 1 and at 512 when they do
\* not, and the start is below the end.
C34_IndexRangeOfBlock ==
    LET a     == input.vpn
        b     == input.vpn + input.n
        align == get_layout_for_level(input.level)
        up    == (input.level + 1) * PAGE_ENTRIES_BITS
    IN  (/\ result.op = "vpn_index_range" /\ LevelExists
         /\ a % align = 0 /\ b % align = 0
         /\ b <= VpnWidth(input.mode))
            => /\ result.ret = "Ok"
               /\ output.value[1] = vpn_index(input.mode, a, input.level)
               /\ output.value[2] =
                    IF Shr(a, up) = Shr(b, up)
                    THEN vpn_index(input.mode, b, input.level)
                    ELSE TABLE_ENTRIES
               /\ output.value[1] < output.value[2]

\* C35: vpn_level_index(vpn, L, idx) has the index idx at level L and the
\* indices of vpn at the other levels.
C35_OnlyOneIndexChanges ==
    (result.op = "vpn_level_index" /\ LevelExists)
        => /\ result.ret = "Ok"
           /\ \A k \in 0 .. (MAX_PAGE_LEVELS - 1) :
                vpn_index(input.mode, output.value, k) =
                    IF k = input.level THEN input.idx
                    ELSE vpn_index(input.mode, input.vpn, k)

-----------------------------------------------------------------------------
(* Properties of the intermediate tables, under Spec.                      *)

\* The slots of the tables (the frames of the set tables) in memory m that
\* hold a valid entry that is no leaf and points to frame f
ChildSlotsTo(m, tables, f) ==
    {k \in DOMAIN m : /\ k[1] \in tables
                      /\ slot_is_valid(m[k]) /\ ~entry_is_leaf_page(m[k])
                      /\ entry_get_ppn(m[k]) = f}

\* C36: an allocate_map call appends the frames it takes to the list of
\* owned frames; each of them comes from the allocator's free pages, holds
\* after the call nothing but what the call wrote, and is pointed to by
\* exactly one child entry in the tables of the space (its root frame and
\* its owned frames), written into a slot that was invalid; a slot that
\* was valid before the call is left as it was, so the tables that exist
\* are followed and no frame is taken for them.
C36_Step ==
    Mapped("as1") =>
        LET old   == spaces["as1"].frames
            new   == spaces'["as1"].frames
            fresh == SeqToSet(new) \ SeqToSet(old)
            c     == result'.arg
            links == {k \in DOMAIN mem' :
                        /\ slot_is_valid(mem'[k]) /\ ~entry_is_leaf_page(mem'[k])
                        /\ mem'[k] # Slot(mem, k[1], k[2])}
        IN  /\ SubSeq(new, 1, Len(old)) = old
            /\ Cardinality(SeqToSet(new)) = Len(new)
            /\ fresh \subseteq FreePages(fa)
            /\ fresh \cap FreePages(fa') = {}
            /\ spaces["as1"].root_frame \notin fresh
            /\ \A k \in links :
                    /\ entry_get_ppn(mem'[k]) \in fresh
                    /\ ~slot_is_valid(Slot(mem, k[1], k[2])) \/ k[1] \in fresh
            /\ Cardinality(links) = Cardinality(fresh)
            /\ \A k \in DOMAIN mem :
                    (slot_is_valid(mem[k]) /\ k[1] \notin fresh)
                        => Slot(mem', k[1], k[2]) = mem[k]
            /\ \A k \in DOMAIN mem' :
                    (k[1] \in fresh /\ slot_is_valid(mem'[k])) =>
                        \/ k \in links
                        \/ /\ entry_is_leaf_page(mem'[k])
                           /\ entry_get_ppn(mem'[k]) \in c.ppn .. (c.ppn + c.n - 1)
            /\ \A f \in SeqToSet(new) :
                    Cardinality(ChildSlotsTo(mem', Owned(spaces'["as1"]), f)) = 1

C36_TablesLinkedOnce == [][C36_Step]_vars

-----------------------------------------------------------------------------
(* The state of the frame allocator, under SpecFA.                         *)

\* C37: in every state allocate_frame and deallocate_frame lead to from an
\* allocator created with start <= end, the watermark lies in
\* [start, end], no page is on the recycled stack twice, and no page of
\* the recycled stack lies in the unallocated range [watermark, end).
C37_AllocatorWellFormed ==
    /\ from <= fa.current /\ fa.current <= fa.end
    /\ fa.end = to
    /\ \A i, j \in 1 .. Len(fa.recycled) :
            i # j => fa.recycled[i] # fa.recycled[j]
    /\ \A i \in 1 .. Len(fa.recycled) :
            ~(fa.current <= fa.recycled[i] /\ fa.recycled[i] < fa.end)

\* The whole region has been handed out and two pages have been given
\* back; a further deallocate_frame was rejected
C37_Witness ==
    /\ fa.current = fa.end
    /\ Len(fa.recycled) >= 2
    /\ result.op = "deallocate_frame"
    /\ result.ret = "Panic"

=============================================================================
